---------------------------- MODULE Spec2Model ----------------------------
(***************************************************************************)
(* lib2dex: LibreView -> Dexcom Share synchronisation.                     *)
(*                                                                         *)
(* The program is one Node.js thread.  Its state is the Syncer object, the *)
(* two client objects it owns, and the position of the single chain of     *)
(* async calls that is in flight.  `pc' is the statement the chain stands  *)
(* at, `stack' the return points of the async functions awaiting it.  A    *)
(* step is either a piece of synchronous code, or the arrival of an event  *)
(* the code awaits: a response of one of the two remote services, the end  *)
(* of a sleep, the firing of the daemon's timer.                           *)
(***************************************************************************)
EXTENDS Integers, Sequences, FiniteSets, TLC

VARIABLES
    pc,                \* statement the async call chain stands at
    stack,             \* return points of the awaiting callers, innermost first
    mode,              \* CLI mode chosen by index.js main()
    now,               \* wall clock, epoch ms (Date.now())
    cycles,            \* sync() calls started so far
    \* ---- LibreViewClient fields and _request locals
    token,             \* this.token          (NoToken = null)
    tokenExpiry,       \* this.tokenExpiry    (epoch ms, 0 = null)
    region,            \* this.region / this.baseUrl
    patientId,         \* this.patientId      (NoPatient = null)
    req,               \* _request arguments: which request is being made
    attempt,           \* _request loop variable
    sleeps,            \* delays slept by the current _request call
    resp,              \* value the last awaited call resolved to
    \* ---- DexcomClient fields
    accountId,         \* this.accountId      (0 = null)
    sessionId,         \* this.sessionId      (0 = null)
    serialNumber,      \* this.serialNumber   (NoSerial = null)
    \* ---- Syncer fields and sync() locals
    maxReadings,       \* this.maxReadings
    syncedTimestamps,  \* this.syncedTimestamps, a JS Set: in insertion order
    stats,             \* this.stats
    readings,          \* sync(): const readings
    toSync,            \* sync(): const toSync
    report,            \* testConnections(): libreResult, dexcomResult, allOk
    \* ---- the remote services and the record of what was observed
    issued,            \* ids the destination service has handed out so far
    cycle,             \* what the engine state was when the running cycle began
    outcome,           \* how the last sync() call settled
    call,              \* requests made by the running uploadReadings call
    accepted,          \* timestamps the destination has accepted (HTTP 200)
    repeated,          \* timestamps it has accepted more than once
    initialized,       \* whether a call of initialize() has returned
    irregular          \* answers other than plain success the services gave

vars ==
    << pc, stack, mode, now, cycles, token, tokenExpiry, region, patientId, req,
       attempt, sleeps, resp, accountId, sessionId, serialNumber, maxReadings,
       syncedTimestamps, stats, readings, toSync, issued, cycle, outcome, call,
       accepted, repeated, irregular, report, initialized >>

libreVars == << token, tokenExpiry, region, patientId >>
reqVars == << req, attempt, sleeps >>
dexVars == << accountId, sessionId, serialNumber, issued >>
engineVars == << maxReadings, syncedTimestamps, readings, toSync >>
ghostVars == << cycle, call, accepted, repeated >>
runVars == << initialized, report >>

----------------------------------------------------------------------------
(* Bounds of the model *)

MaxTicks == 1
MaxCycles == 2
MaxGraph == 2
MaxBatch == 2
MaxIrregular == 3
MaxTrend == 8

(* Program constants *)

maxRetries == 3
retryDelayMs == 10000

(* Time.  The clock moves in steps of twelve hours; the source's readings *)
(* carry timestamps around the 24 h purge boundary of the first steps.    *)

TickMs == 12 * 60 * 60 * 1000
T0 == 4 * TickMs
SourceTimes == { T0 - TickMs - 1, T0 - TickMs, T0 }

NoToken == "null"
NoPatient == "null"
NoSerial == "null"
NoTimestamp == 0
InvalidTimestamp == -1

----------------------------------------------------------------------------
(* Sequences as the code uses them *)

SetOf(s) == { s[i] : i \in 1..Len(s) }

Min(a, b) == IF a < b THEN a ELSE b

\* faulty variant: the batch is not capped
SliceAll(s, n) == s

\* Array.prototype.slice(0, n)
Slice(s, n) == SubSeq(s, 1, Min(Len(s), n))

\* Seq(S) up to a length
SeqsUpTo(S, n) == UNION { [1..k -> S] : k \in 0..n }

----------------------------------------------------------------------------
(* Control: async calls, returns and exceptions *)

\* Return points that lie inside the try block of Syncer.sync
SyncFrames == { "sync.fetched", "sync.uploaded" }

\* Return points that lie inside a try block whose catch swallows the error
CatchFrames ==
    { "syncLoop.schedule", "Libre.testConnection.settled", "Dexcom.testConnection.settled" }

\* A rejection travels up the awaiting callers: sync()'s catch counts it and
\* throws it again, syncLoop's catch swallows it, main()'s catch ends the
\* process.
RECURSIVE Unwind(_)
Unwind(stk) ==
    IF stk = << >> THEN [pc |-> "fatal", stack |-> << >>, caught |-> FALSE]
    ELSE IF Head(stk) \in SyncFrames
        THEN [Unwind(Tail(stk)) EXCEPT !.caught = TRUE]
    ELSE IF Head(stk) \in CatchFrames
        THEN [pc |-> Head(stk), stack |-> Tail(stk), caught |-> FALSE]
    ELSE Unwind(Tail(stk))

Error(msg) == [kind |-> "error", message |-> msg]

\* faulty variant: the catch block does not count the error
SyncCatchUncounted(msg) ==
    /\ stats' = [stats EXCEPT !.lastError = msg]
    /\ outcome' = [kind |-> "threw", synced |-> 0, skipped |-> 0, error |-> msg]

\* faulty variant: the catch block clears the synced total as well
SyncCatchResetting(msg) ==
    /\ stats' = [stats EXCEPT !.errors = @ + 1, !.lastError = msg, !.totalSynced = 0]
    /\ outcome' = [kind |-> "threw", synced |-> 0, skipped |-> 0, error |-> msg]

\* the catch block of sync()
SyncCatch(msg) ==
    /\ stats' = [stats EXCEPT !.errors = @ + 1, !.lastError = msg]
    /\ outcome' = [kind |-> "threw", synced |-> 0, skipped |-> 0, error |-> msg]

Throw(msg) ==
    LET u == Unwind(stack) IN
    /\ pc' = u.pc
    /\ stack' = u.stack
    /\ resp' = Error(msg)
    /\ IF u.caught THEN SyncCatch(msg) ELSE UNCHANGED << stats, outcome >>

Call(entry, ret) ==
    /\ pc' = entry
    /\ stack' = << ret >> \o stack

Return(value) ==
    /\ pc' = Head(stack)
    /\ stack' = Tail(stack)
    /\ resp' = value

Goto(label) ==
    /\ pc' = label
    /\ UNCHANGED stack

Void == [kind |-> "undefined"]

----------------------------------------------------------------------------
(* The source service: what it may answer to a request *)

Lifetimes == { TickMs }

\* JavaScript values of a field that should hold a number: a number, a
\* non-empty string such as "Flat", or nothing at all
Number(n) == [typeof |-> "number", value |-> n]
Text == [typeof |-> "string", value |-> 0]
Undefined == [typeof |-> "undefined", value |-> 0]

\* what `x || ...' takes for true
Truthy(x) == x.typeof = "string" \/ (x.typeof = "number" /\ x.value # 0)

RawPoints ==
    [ Timestamp : SourceTimes,
      FactoryTimestamp : { NoTimestamp },
      ValueInMgPerDl : { 100 },
      TrendArrow : { Number(4) },
      trendArrow : { Undefined } ]

NoPoint == [ kind |-> "undefined" ]

JsonBodies(r) ==
    CASE r = "login" ->
            { [kind |-> "redirect", region |-> "eu"], [kind |-> "failed"] }
            \cup { [kind |-> "authTicket", expires |-> now + l] : l \in Lifetimes }
      [] r = "connections" ->
            { [kind |-> "connections", data |-> << >>],
              [kind |-> "connections", data |-> << "patient-1" >>],
              [kind |-> "connections", data |-> << "patient-1", "patient-2" >>],
              [kind |-> "failed"] }
      [] r = "graph" ->
            { [kind |-> "failed"] }
            \cup { [kind |-> "graph", current |-> c, graphData |-> g] :
                        c \in RawPoints \cup { NoPoint },
                        g \in SeqsUpTo(RawPoints, MaxGraph) }

\* A response as _requestOnce sees it: the status, and the decoded body
LibreResponses(r) ==
    { [status |-> 200, body |-> "json", data |-> j] : j \in JsonBodies(r) }
    \cup { [status |-> st, body |-> b, data |-> [kind |-> "failed"]] :
                st \in { 200, 403, 429 },
                b \in { "", "{}", "error code: 1015", "<html>", "garbage" } }
    \cup { [status |-> 0, body |-> "ECONNRESET", data |-> [kind |-> "failed"]] }

\* Body texts, and the string operations _requestOnce applies to them
Texts ==
    { "", "  ", "{}", " {} ", "error code: 1015", "error code: 1020", "cloudflare",
      "<html>", "<!DOCTYPE html>", "garbage", "json" }

\* body.trim()
Trim(body) ==
    IF body \in { "", "  " } THEN ""
    ELSE IF body \in { "{}", " {} " } THEN "{}"
    ELSE body

\* body.includes(s)
Includes(body, s) ==
    \/ body = s
    \/ s = "<html" /\ body = "<html>"
    \/ s = "<!DOCTYPE" /\ body = "<!DOCTYPE html>"

\* JSON.parse(body) does not throw
Parses(body) == body \in { "json", "{}", " {} " }

\* _requestOnce rejects with CLOUDFLARE_BLOCKED
Blocked(r) ==
    \/ r.status = 403
    \/ r.status = 429
    \/ Includes(r.body, "error code: 1015")
    \/ Includes(r.body, "error code: 1020")
    \/ Includes(r.body, "cloudflare")
    \/ Includes(r.body, "Cloudflare")
    \/ Trim(r.body) = ""
    \/ Trim(r.body) = "{}"
    \/ /\ ~Parses(r.body)
       /\ Includes(r.body, "<html") \/ Includes(r.body, "<!DOCTYPE")

\* _requestOnce rejects with any other error
Failed(r) ==
    /\ ~Blocked(r)
    /\ r.body # "json"

\* faulty variant: the delay doubles
DelayDoubling(k) == retryDelayMs * 2 ^ (k - 1)

\* this.retryDelayMs * Math.pow(3, attempt - 1)
Delay(k) == retryDelayMs * 3 ^ (k - 1)

\* The answers a source that works gives: a ticket, a patient, readings
Regular(r) ==
    /\ ~Blocked(r)
    /\ ~Failed(r)
    /\ \/ r.data.kind \in { "authTicket", "graph" }
       \/ r.data.kind = "connections" /\ Len(r.data.data) > 0

\* A bounded run lets the services give MaxIrregular other answers
LibreAnswer(r) ==
    /\ ~Regular(r) => irregular < MaxIrregular
    /\ irregular' = IF Regular(r) THEN irregular ELSE irregular + 1

----------------------------------------------------------------------------
(* LibreViewClient *)

\* faulty variant: the token still counts as valid at its expiry
isTokenValidAtExpiry ==
    /\ token # NoToken
    /\ tokenExpiry # 0
    /\ now <= tokenExpiry

isTokenValid ==
    /\ token # NoToken
    /\ tokenExpiry # 0
    /\ now < tokenExpiry

\* _request: the first attempt is sent
Libre_request(r, ret) ==
    /\ req' = r
    /\ attempt' = 1
    /\ sleeps' = << >>
    /\ Call("_requestOnce", ret)

\* faulty variant: a failure that is not a block is slept on and retried too
SettleRetryingAll(r) ==
    IF Blocked(r) \/ Failed(r)
    THEN /\ sleeps' = Append(sleeps, Delay(attempt))
         /\ Goto("_sleep")
         /\ UNCHANGED << req, attempt, resp, stats, outcome >>
    ELSE /\ Return(r.data)
         /\ req' = "null"
         /\ attempt' = 0
         /\ sleeps' = << >>
         /\ UNCHANGED << stats, outcome >>

\* faulty variant: no sleep after the last attempt
SettleWithoutLastSleep(r) ==
    IF Blocked(r) /\ attempt < maxRetries
    THEN /\ sleeps' = Append(sleeps, Delay(attempt))
         /\ Goto("_sleep")
         /\ UNCHANGED << req, attempt, resp, stats, outcome >>
    ELSE IF Blocked(r)
    THEN /\ Throw("LibreView API blocked")
         /\ UNCHANGED << req, attempt, sleeps >>
    ELSE IF Failed(r)
    THEN /\ Throw(IF r.status = 0 THEN r.body ELSE "Failed to parse response")
         /\ UNCHANGED << req, attempt, sleeps >>
    ELSE /\ Return(r.data)
         /\ req' = "null"
         /\ attempt' = 0
         /\ sleeps' = << >>
         /\ UNCHANGED << stats, outcome >>

\* what becomes of an attempt once its response is in: _requestOnce resolves
\* or rejects, and _request returns, sleeps, or throws
Settle(r) ==
    IF Blocked(r)
    THEN /\ sleeps' = Append(sleeps, Delay(attempt))
         /\ Goto("_sleep")
         /\ UNCHANGED << req, attempt, resp, stats, outcome >>
    ELSE IF Failed(r)
    THEN /\ Throw(IF r.status = 0 THEN r.body ELSE "Failed to parse response")
         /\ UNCHANGED << req, attempt, sleeps >>
    ELSE /\ Return(r.data)
         /\ req' = "null"
         /\ attempt' = 0
         /\ sleeps' = << >>
         /\ UNCHANGED << stats, outcome >>

\* _request: the response to an attempt arrives
Libre_requestOnce ==
    /\ pc = "_requestOnce"
    /\ \E r \in LibreResponses(req) :
        /\ LibreAnswer(r)
        /\ Settle(r)
    /\ UNCHANGED << mode, runVars, now, cycles, libreVars, dexVars, engineVars,
                    ghostVars >>

\* faulty variant: the loop runs once more
LoopGoesOnOnceMore(a) == a <= maxRetries + 1

\* for (let attempt = 1; attempt <= this.maxRetries; attempt++)
LoopGoesOn(a) == a <= maxRetries

\* _request: the backoff sleep ends; the loop goes on or gives up
Libre_sleep ==
    /\ pc = "_sleep"
    /\ IF LoopGoesOn(attempt + 1)
       THEN /\ attempt' = attempt + 1
            /\ Goto("_requestOnce")
            /\ UNCHANGED << resp, stats, outcome >>
       ELSE /\ Throw("LibreView API blocked")
            /\ UNCHANGED attempt
    /\ UNCHANGED << mode, runVars, irregular, now, cycles, libreVars, req, sleeps, dexVars,
                    engineVars, ghostVars >>

Libre_authenticate ==
    /\ pc = "Libre.authenticate"
    /\ Libre_request("login", "Libre.authenticate.response")
    /\ UNCHANGED << mode, runVars, irregular, now, cycles, libreVars, resp, dexVars, engineVars,
                    stats, outcome, ghostVars >>

Libre_authenticate_response ==
    /\ pc = "Libre.authenticate.response"
    /\ IF resp.kind = "redirect"
       THEN /\ region' = resp.region
            /\ Call("Libre.authenticate", "Libre.authenticate.retried")
            /\ UNCHANGED << token, tokenExpiry, resp, stats, outcome >>
       ELSE IF resp.kind # "authTicket"
       THEN /\ Throw("Authentication failed")
            /\ UNCHANGED << token, tokenExpiry, region >>
       ELSE /\ token' = "token"
            /\ tokenExpiry' = resp.expires
            /\ Return(Void)
            /\ UNCHANGED << region, stats, outcome >>
    /\ UNCHANGED << mode, runVars, irregular, now, cycles, patientId, reqVars, dexVars, engineVars,
                    ghostVars >>

\* return this.authenticate(true): the caller hands on what the retry returned
Libre_authenticate_retried ==
    /\ pc = "Libre.authenticate.retried"
    /\ Return(resp)
    /\ UNCHANGED << mode, runVars, irregular, now, cycles, libreVars, reqVars, dexVars, engineVars,
                    stats, outcome, ghostVars >>

Libre_ensureAuthenticated ==
    /\ pc = "Libre.ensureAuthenticated"
    /\ IF ~isTokenValid
       THEN Goto("Libre.authenticate") /\ UNCHANGED resp
       ELSE Return(Void)
    /\ UNCHANGED << mode, runVars, irregular, now, cycles, libreVars, reqVars, dexVars, engineVars,
                    stats, outcome, ghostVars >>

getConnections ==
    /\ pc = "getConnections"
    /\ Call("Libre.ensureAuthenticated", "getConnections.request")
    /\ UNCHANGED << mode, runVars, irregular, now, cycles, libreVars, reqVars, resp, dexVars,
                    engineVars, stats, outcome, ghostVars >>

getConnections_request ==
    /\ pc = "getConnections.request"
    /\ Libre_request("connections", "getConnections.response")
    /\ UNCHANGED << mode, runVars, irregular, now, cycles, libreVars, resp, dexVars, engineVars,
                    stats, outcome, ghostVars >>

getConnections_response ==
    /\ pc = "getConnections.response"
    /\ IF resp.kind # "connections"
       THEN Throw("Failed to get connections")
       ELSE Return(resp) /\ UNCHANGED << stats, outcome >>
    /\ UNCHANGED << mode, runVars, irregular, now, cycles, libreVars, reqVars, dexVars, engineVars,
                    ghostVars >>

\* faulty variant: the connections are fetched on every call
getPatientIdUncached ==
    /\ pc = "getPatientId"
    /\ Call("getConnections", "getPatientId.connections")
    /\ UNCHANGED << mode, runVars, irregular, now, cycles, libreVars, reqVars, resp, dexVars,
                    engineVars, stats, outcome, ghostVars >>

getPatientId ==
    /\ pc = "getPatientId"
    /\ IF patientId # NoPatient
       THEN Return([kind |-> "patientId", data |-> patientId])
       ELSE Call("getConnections", "getPatientId.connections") /\ UNCHANGED resp
    /\ UNCHANGED << mode, runVars, irregular, now, cycles, libreVars, reqVars, dexVars, engineVars,
                    stats, outcome, ghostVars >>

getPatientId_connections ==
    /\ pc = "getPatientId.connections"
    /\ IF Len(resp.data) = 0
       THEN /\ Throw("No LibreLinkUp connections found")
            /\ UNCHANGED patientId
       ELSE /\ patientId' = resp.data[1]
            /\ Return([kind |-> "patientId", data |-> resp.data[1]])
            /\ UNCHANGED << stats, outcome >>
    /\ UNCHANGED << mode, runVars, irregular, now, cycles, token, tokenExpiry, region, reqVars,
                    dexVars, engineVars, ghostVars >>

\* _formatReading
\* faulty variant: the timestamp is taken as it was parsed, valid or not
formatReadingAsParsed(data, t) ==
    LET rawTs == IF data.Timestamp # NoTimestamp THEN data.Timestamp
                 ELSE data.FactoryTimestamp
    IN  [ value |-> data.ValueInMgPerDl,
          trend |-> IF Truthy(data.TrendArrow) THEN data.TrendArrow
                    ELSE IF Truthy(data.trendArrow) THEN data.trendArrow
                    ELSE Number(4),
          timestamp |-> IF rawTs # NoTimestamp THEN rawTs ELSE t ]

formatReading(data, t) ==
    LET rawTs == IF data.Timestamp # NoTimestamp THEN data.Timestamp
                 ELSE data.FactoryTimestamp
    IN  [ value |-> data.ValueInMgPerDl,
          trend |-> IF Truthy(data.TrendArrow) THEN data.TrendArrow
                    ELSE IF Truthy(data.trendArrow) THEN data.trendArrow
                    ELSE Number(4),
          timestamp |-> IF rawTs # NoTimestamp
                        THEN (IF rawTs = InvalidTimestamp THEN t ELSE rawTs)
                        ELSE t ]

\* faulty variant: the comparator is a.timestamp - b.timestamp
RECURSIVE InsertAscending(_, _)
InsertAscending(s, r) ==
    IF s = << >> THEN << r >>
    ELSE IF Head(s).timestamp <= r.timestamp
        THEN << Head(s) >> \o InsertAscending(Tail(s), r)
    ELSE << r >> \o s

\* readings.sort((a, b) => b.timestamp - a.timestamp): a stable sort
RECURSIVE InsertDescending(_, _)
InsertDescending(s, r) ==
    IF s = << >> THEN << r >>
    ELSE IF Head(s).timestamp >= r.timestamp
        THEN << Head(s) >> \o InsertDescending(Tail(s), r)
    ELSE << r >> \o s

\* (the sorted prefix is bound as a value, so it is computed once)
RECURSIVE SortDescending(_)
SortDescending(s) ==
    IF s = << >> THEN << >>
    ELSE CHOOSE out \in { InsertDescending(sorted, s[Len(s)]) :
                            sorted \in { SortDescending(SubSeq(s, 1, Len(s) - 1)) } } :
            TRUE

\* faulty variant: every sorted reading is returned
UniqueKeepsAll(s, seen) == s

\* the loop over the sorted readings that keeps the first of each timestamp
RECURSIVE Unique(_, _)
Unique(s, seen) ==
    IF s = << >> THEN << >>
    ELSE IF Head(s).timestamp \in seen THEN Unique(Tail(s), seen)
    ELSE << Head(s) >> \o Unique(Tail(s), seen \cup { Head(s).timestamp })

\* getGlucoseReadings, from the response on
ParseGraph(data, t) ==
    LET current == IF data.current # NoPoint
                   THEN << formatReading(data.current, t) >> ELSE << >>
        graph == [ i \in 1..Len(data.graphData) |->
                        formatReading(data.graphData[i], t) ]
    IN  CHOOSE out \in { Unique(sorted, { }) :
                            sorted \in { SortDescending(current \o graph) } } :
            TRUE

getGlucoseReadings ==
    /\ pc = "getGlucoseReadings"
    /\ Call("Libre.ensureAuthenticated", "getGlucoseReadings.patient")
    /\ UNCHANGED << mode, runVars, irregular, now, cycles, libreVars, reqVars, resp, dexVars,
                    engineVars, stats, outcome, ghostVars >>

getGlucoseReadings_patient ==
    /\ pc = "getGlucoseReadings.patient"
    /\ Call("getPatientId", "getGlucoseReadings.request")
    /\ UNCHANGED << mode, runVars, irregular, now, cycles, libreVars, reqVars, resp, dexVars,
                    engineVars, stats, outcome, ghostVars >>

getGlucoseReadings_request ==
    /\ pc = "getGlucoseReadings.request"
    /\ Libre_request("graph", "getGlucoseReadings.response")
    /\ UNCHANGED << mode, runVars, irregular, now, cycles, libreVars, resp, dexVars, engineVars,
                    stats, outcome, ghostVars >>

getGlucoseReadings_response ==
    /\ pc = "getGlucoseReadings.response"
    /\ IF resp.kind # "graph"
       THEN Throw("Failed to get glucose readings")
       ELSE /\ Return([kind |-> "readings", data |-> ParseGraph(resp, now)])
            /\ UNCHANGED << stats, outcome >>
    /\ UNCHANGED << mode, runVars, irregular, now, cycles, libreVars, reqVars, dexVars, engineVars,
                    ghostVars >>

\* what testConnection() resolves to, on either client
Probe(ok, msg) == [kind |-> "probe", success |-> ok, error |-> msg]

\* testConnection(): the try block is entered
Libre_testConnection ==
    /\ pc = "Libre.testConnection"
    /\ pc' = "Libre.authenticate"
    /\ stack' = << "Libre.testConnection.connections", "Libre.testConnection.settled" >>
                    \o stack
    /\ UNCHANGED << mode, runVars, irregular, now, cycles, libreVars, reqVars, resp, dexVars,
                    engineVars, stats, outcome, ghostVars >>

Libre_testConnection_connections ==
    /\ pc = "Libre.testConnection.connections"
    /\ Call("getConnections", "Libre.testConnection.reading")
    /\ UNCHANGED << mode, runVars, irregular, now, cycles, libreVars, reqVars, resp, dexVars,
                    engineVars, stats, outcome, ghostVars >>

\* getLatestReading()
Libre_testConnection_reading ==
    /\ pc = "Libre.testConnection.reading"
    /\ Call("getGlucoseReadings", "Libre.testConnection.latest")
    /\ UNCHANGED << mode, runVars, irregular, now, cycles, libreVars, reqVars, resp, dexVars,
                    engineVars, stats, outcome, ghostVars >>

Libre_testConnection_latest ==
    /\ pc = "Libre.testConnection.latest"
    /\ Return(Probe(TRUE, "null"))
    /\ UNCHANGED << mode, runVars, irregular, now, cycles, libreVars, reqVars, dexVars,
                    engineVars, stats, outcome, ghostVars >>

\* the try block has been left: by its return, or through the catch block
Libre_testConnection_settled ==
    /\ pc = "Libre.testConnection.settled"
    /\ Return(IF resp.kind = "error" THEN Probe(FALSE, resp.message) ELSE resp)
    /\ UNCHANGED << mode, runVars, irregular, now, cycles, libreVars, reqVars, dexVars,
                    engineVars, stats, outcome, ghostVars >>

----------------------------------------------------------------------------
(* The destination service: what it may answer *)

AuthAnswers == { "200", "200 empty", "500" }
PostAnswers == { "200", "429", "500 SessionIdNotFound", "500" }

\* faulty variant: any HTTP 500 counts as a lost session
AnyServerError(r) == r \in { "500 SessionIdNotFound", "500" }

\* response.status === 500 && response.data.Code === 'SessionIdNotFound'
SessionIdNotFound(r) == r = "500 SessionIdNotFound"

\* A bounded run lets the services give MaxIrregular answers other than 200
DexcomAnswer(r) ==
    /\ r # "200" => irregular < MaxIrregular
    /\ irregular' = IF r # "200" THEN irregular + 1 ELSE irregular

----------------------------------------------------------------------------
(* DexcomClient *)

Dexcom_authenticate ==
    /\ pc = "Dexcom.authenticate"
    /\ Call("_authenticateAccount", "_authenticateSession")
    /\ UNCHANGED << mode, runVars, irregular, now, cycles, libreVars, reqVars, resp, dexVars,
                    engineVars, stats, outcome, ghostVars >>

\* faulty variant: the status alone decides, an empty body passes
AuthOkAnyBody(r) == r \in { "200", "200 empty" }

\* !(response.status !== 200 || !response.data)
AuthOk(r) == r = "200"

authenticateAccount ==
    /\ pc = "_authenticateAccount"
    /\ \E r \in AuthAnswers :
        /\ DexcomAnswer(r)
        /\ IF ~AuthOk(r)
           THEN /\ Throw("Account authentication failed")
                /\ UNCHANGED accountId
           ELSE /\ accountId' = 1
                /\ Return(Void)
                /\ UNCHANGED << stats, outcome >>
        /\ call' = [call EXCEPT !.auth = Append(@, "account"),
                                !.answers = Append(@, r)]
    /\ UNCHANGED << mode, runVars, now, cycles, libreVars, reqVars, sessionId,
                    serialNumber, issued, engineVars, cycle, accepted, repeated >>

authenticateSession ==
    /\ pc = "_authenticateSession"
    /\ IF accountId = 0
       THEN /\ Call("_authenticateAccount", "_authenticateSession")
            /\ UNCHANGED << resp, sessionId, issued, stats, outcome, call,
                            irregular >>
       ELSE /\ \E r \in AuthAnswers :
                /\ DexcomAnswer(r)
                /\ IF ~AuthOk(r)
                   THEN /\ Throw("Session authentication failed")
                        /\ UNCHANGED << sessionId, issued >>
                   ELSE /\ sessionId' = issued + 1
                        /\ issued' = issued + 1
                        /\ Return(Void)
                        /\ UNCHANGED << stats, outcome >>
                /\ call' = [call EXCEPT !.auth = Append(@, "session"),
                                        !.answers = Append(@, r)]
    /\ UNCHANGED << mode, runVars, now, cycles, libreVars, reqVars, accountId,
                    serialNumber, engineVars, cycle, accepted, repeated >>

\* faulty variant: every call authenticates anew
ensureAuthenticatedAlways ==
    /\ pc = "Dexcom.ensureAuthenticated"
    /\ Goto("Dexcom.authenticate")
    /\ UNCHANGED << mode, runVars, irregular, now, cycles, libreVars, reqVars, resp, dexVars,
                    engineVars, stats, outcome, ghostVars >>

Dexcom_ensureAuthenticated ==
    /\ pc = "Dexcom.ensureAuthenticated"
    /\ IF sessionId = 0
       THEN Goto("Dexcom.authenticate") /\ UNCHANGED resp
       ELSE Return(Void)
    /\ UNCHANGED << mode, runVars, irregular, now, cycles, libreVars, reqVars, dexVars, engineVars,
                    stats, outcome, ghostVars >>

\* faulty variant: the ids are held until the new ones arrive
reauthenticateHoldsSession ==
    /\ pc = "reauthenticate"
    /\ Goto("Dexcom.authenticate")
    /\ call' = [call EXCEPT !.reauths = @ + 1, !.auth = Append(@, "reauthenticate"),
                            !.answers = Append(@, "none")]
    /\ UNCHANGED << mode, runVars, irregular, now, cycles, libreVars, reqVars, resp, dexVars,
                    engineVars, stats, outcome, cycle, accepted, repeated >>

\* faulty variant: reauthenticate keeps the ids it holds and returns
reauthenticateKeepsSession ==
    /\ pc = "reauthenticate"
    /\ Return(Void)
    /\ call' = [call EXCEPT !.reauths = @ + 1, !.auth = Append(@, "reauthenticate"),
                            !.answers = Append(@, "none")]
    /\ UNCHANGED << mode, runVars, irregular, now, cycles, libreVars, reqVars, dexVars,
                    engineVars, stats, outcome, cycle, accepted, repeated >>

reauthenticate ==
    /\ pc = "reauthenticate"
    /\ sessionId' = 0
    /\ accountId' = 0
    /\ Goto("Dexcom.authenticate")
    /\ call' = [call EXCEPT !.reauths = @ + 1, !.auth = Append(@, "reauthenticate"),
                            !.answers = Append(@, "none")]
    /\ UNCHANGED << mode, runVars, irregular, now, cycles, libreVars, reqVars, resp, serialNumber,
                    issued, engineVars, stats, outcome, cycle, accepted, repeated >>

registerReceiver ==
    /\ pc = "registerReceiver"
    /\ Call("Dexcom.ensureAuthenticated", "registerReceiver.request")
    /\ UNCHANGED << mode, runVars, irregular, now, cycles, libreVars, reqVars, resp, dexVars,
                    engineVars, stats, outcome, ghostVars >>

registerReceiver_request ==
    /\ pc = "registerReceiver.request"
    /\ IF serialNumber = NoSerial
       THEN Throw("Serial number not set")
       ELSE Goto("registerReceiver.response") /\ UNCHANGED << resp, stats, outcome >>
    /\ UNCHANGED << mode, runVars, irregular, now, cycles, libreVars, reqVars, dexVars, engineVars,
                    ghostVars >>

registerReceiver_response ==
    /\ pc = "registerReceiver.response"
    /\ \E r \in PostAnswers :
        /\ DexcomAnswer(r)
        /\ IF SessionIdNotFound(r)
           THEN Call("reauthenticate", "registerReceiver") /\ UNCHANGED resp
           ELSE Return(Void)
        /\ call' = [call EXCEPT !.posts =
                        Append(@, [sessionId |-> sessionId, egvs |-> << >>, answer |-> r])]
    /\ UNCHANGED << mode, runVars, now, cycles, libreVars, reqVars, dexVars, engineVars,
                    stats, outcome, cycle, accepted, repeated >>

\* _formatForDexcom: the trend of the wire record
LIBRE_TO_DEXCOM_TREND ==
    1 :> 7 @@ 2 :> 6 @@ 3 :> 5 @@ 4 :> 4 @@ 5 :> 3 @@ 6 :> 2 @@ 7 :> 1

\* faulty variant: the source's trend number is sent on as it is
DexcomTrendUnmapped(trend) ==
    IF trend.typeof = "number" /\ trend.value \in DOMAIN LIBRE_TO_DEXCOM_TREND
    THEN trend.value
    ELSE 4

DexcomTrend(trend) ==
    IF trend.typeof = "number" /\ trend.value \in DOMAIN LIBRE_TO_DEXCOM_TREND
    THEN LIBRE_TO_DEXCOM_TREND[trend.value]
    ELSE 4

\* the instants a posted batch carries
Times(egvs) == { egvs[i].ST : i \in 1..Len(egvs) }

formatForDexcom(reading) ==
    [ DT |-> reading.timestamp, ST |-> reading.timestamp, WT |-> reading.timestamp,
      Value |-> reading.value, Trend |-> DexcomTrend(reading.trend) ]

uploadReadings ==
    /\ pc = "uploadReadings"
    /\ Call("Dexcom.ensureAuthenticated", "uploadReadings.request")
    /\ UNCHANGED << mode, runVars, irregular, now, cycles, libreVars, reqVars, resp, dexVars,
                    engineVars, stats, outcome, ghostVars >>

\* faulty variant: the batch is posted whether or not a serial number is set
uploadReadingsWithoutSerialCheck ==
    /\ pc = "uploadReadings.request"
    /\ IF Len(toSync) = 0
       THEN Return([kind |-> "result", uploaded |-> 0]) /\ UNCHANGED << stats, outcome >>
       ELSE Goto("uploadReadings.response") /\ UNCHANGED << resp, stats, outcome >>
    /\ UNCHANGED << mode, runVars, irregular, now, cycles, libreVars, reqVars, dexVars, engineVars,
                    ghostVars >>

uploadReadings_request ==
    /\ pc = "uploadReadings.request"
    /\ IF serialNumber = NoSerial
       THEN Throw("Serial number not set")
       ELSE IF Len(toSync) = 0
       THEN Return([kind |-> "result", uploaded |-> 0]) /\ UNCHANGED << stats, outcome >>
       ELSE Goto("uploadReadings.response") /\ UNCHANGED << resp, stats, outcome >>
    /\ UNCHANGED << mode, runVars, irregular, now, cycles, libreVars, reqVars, dexVars, engineVars,
                    ghostVars >>

\* faulty variant: any failed upload is waited out and posted again
RateLimitedOrFailed(r) == r \in { "429", "500" }

\* response.status === 429
RateLimited(r) == r = "429"

uploadReadings_response ==
    /\ pc = "uploadReadings.response"
    /\ LET egvs == [ i \in 1..Len(toSync) |-> formatForDexcom(toSync[i]) ] IN
       \E r \in PostAnswers :
        /\ DexcomAnswer(r)
        /\ call' = [call EXCEPT
                        !.posts = Append(@, [sessionId |-> sessionId, egvs |-> egvs,
                                             answer |-> r])]
        /\ accepted' = IF r = "200" THEN accepted \cup Times(egvs) ELSE accepted
        /\ repeated' = IF r = "200" THEN repeated \cup (accepted \cap Times(egvs))
                       ELSE repeated
        /\ IF SessionIdNotFound(r)
           THEN /\ Call("reauthenticate", "uploadReadings")
                /\ UNCHANGED << resp, stats, outcome >>
           ELSE IF RateLimited(r)
           THEN /\ Goto("uploadReadings.wait")
                /\ UNCHANGED << resp, stats, outcome >>
           ELSE IF r # "200"
           THEN Throw("Failed to upload readings")
           ELSE /\ Return([kind |-> "result", uploaded |-> Len(egvs)])
                /\ UNCHANGED << stats, outcome >>
    /\ UNCHANGED << mode, runVars, now, cycles, libreVars, reqVars, dexVars, engineVars,
                    cycle >>

\* the one-minute sleep after a 429 ends
uploadReadings_wait ==
    /\ pc = "uploadReadings.wait"
    /\ Goto("uploadReadings")
    /\ UNCHANGED << mode, runVars, irregular, now, cycles, libreVars, reqVars, resp, dexVars,
                    engineVars, stats, outcome, ghostVars >>

\* what a 200 answer to ReadPublisherLatestGlucoseValues may carry: an empty
\* body, an empty list, a list of values
ReadBodies == { "null", "[]", "values" }

\* response.data || []
ValuesRead(body) == IF body = "values" THEN << "value" >> ELSE << >>

readLatestValues ==
    /\ pc = "readLatestValues"
    /\ Call("Dexcom.ensureAuthenticated", "readLatestValues.response")
    /\ UNCHANGED << mode, runVars, irregular, now, cycles, libreVars, reqVars, resp, dexVars,
                    engineVars, stats, outcome, ghostVars >>

readLatestValues_response ==
    /\ pc = "readLatestValues.response"
    /\ \E r \in PostAnswers :
        /\ DexcomAnswer(r)
        /\ call' = [call EXCEPT !.posts =
                        Append(@, [sessionId |-> sessionId, egvs |-> << >>, answer |-> r])]
        /\ IF SessionIdNotFound(r)
           THEN /\ Call("reauthenticate", "readLatestValues")
                /\ UNCHANGED << resp, stats, outcome >>
           ELSE IF r # "200"
           THEN Throw("Failed to read values")
           ELSE /\ \E body \in ReadBodies :
                    Return([kind |-> "values", data |-> ValuesRead(body)])
                /\ UNCHANGED << stats, outcome >>
    /\ UNCHANGED << mode, runVars, now, cycles, libreVars, reqVars, dexVars, engineVars,
                    cycle, accepted, repeated >>

\* testConnection(): the try block is entered
Dexcom_testConnection ==
    /\ pc = "Dexcom.testConnection"
    /\ pc' = "Dexcom.authenticate"
    /\ stack' = << "Dexcom.testConnection.read", "Dexcom.testConnection.settled" >>
                    \o stack
    /\ UNCHANGED << mode, runVars, irregular, now, cycles, libreVars, reqVars, resp, dexVars,
                    engineVars, stats, outcome, ghostVars >>

Dexcom_testConnection_read ==
    /\ pc = "Dexcom.testConnection.read"
    /\ Call("readLatestValues", "Dexcom.testConnection.values")
    /\ UNCHANGED << mode, runVars, irregular, now, cycles, libreVars, reqVars, resp, dexVars,
                    engineVars, stats, outcome, ghostVars >>

Dexcom_testConnection_values ==
    /\ pc = "Dexcom.testConnection.values"
    /\ Return(Probe(TRUE, "null"))
    /\ UNCHANGED << mode, runVars, irregular, now, cycles, libreVars, reqVars, dexVars,
                    engineVars, stats, outcome, ghostVars >>

\* the try block has been left: by its return, or through the catch block
Dexcom_testConnection_settled ==
    /\ pc = "Dexcom.testConnection.settled"
    /\ Return(IF resp.kind = "error" THEN Probe(FALSE, resp.message) ELSE resp)
    /\ UNCHANGED << mode, runVars, irregular, now, cycles, libreVars, reqVars, dexVars,
                    engineVars, stats, outcome, ghostVars >>

----------------------------------------------------------------------------
(* Syncer *)

\* Set.prototype.add on the insertion-ordered set
SetAdd(s, x) == IF x \in SetOf(s) THEN s ELSE Append(s, x)

\* for (const r of toSync) this.syncedTimestamps.add(r.timestamp.getTime())
RECURSIVE MarkSynced(_, _)
MarkSynced(s, batch) ==
    IF batch = << >> THEN s
    ELSE MarkSynced(SetAdd(s, Head(batch).timestamp), Tail(batch))

\* faulty variant: an entry exactly 24 h old is purged too
ExpiredInclusive(ts, cutoff) == ts <= cutoff

\* if (ts < cutoff) this.syncedTimestamps.delete(ts)
Expired(ts, cutoff) == ts < cutoff

\* _cleanupSyncedTimestamps: the loop that visits the set in insertion order
RECURSIVE CleanupLoop(_, _)
CleanupLoop(s, cutoff) ==
    IF s = << >> THEN << >>
    ELSE IF Expired(Head(s), cutoff) THEN CleanupLoop(Tail(s), cutoff)
    ELSE << Head(s) >> \o CleanupLoop(Tail(s), cutoff)

\* faulty variant: nothing is purged
cleanupNothing(s, t) == s

cleanupSyncedTimestamps(s, t) == CleanupLoop(s, t - (24 * 60 * 60 * 1000))

\* faulty variant: the filter lets every reading through
IsNewAlways(r) == TRUE

\* readings.filter(r => !this.syncedTimestamps.has(r.timestamp.getTime()))
IsNew(r) == r.timestamp \notin SetOf(syncedTimestamps)
newReadings(rs) == SelectSeq(rs, IsNew)

Settled(synced, skipped) ==
    [kind |-> "returned", synced |-> synced, skipped |-> skipped, error |-> "null"]

NoCall == [reauths |-> 0, posts |-> << >>, auth |-> << >>, answers |-> << >>]

sync ==
    /\ pc = "sync"
    /\ cycles' = cycles + 1
    /\ cycle' = [synced |-> syncedTimestamps, stats |-> stats]
    /\ outcome' = [kind |-> "pending", synced |-> 0, skipped |-> 0, error |-> "null"]
    /\ readings' = << >>
    /\ toSync' = << >>
    /\ call' = NoCall
    /\ resp' = Void
    /\ req' = "null"
    /\ attempt' = 0
    /\ sleeps' = << >>
    /\ Call("getGlucoseReadings", "sync.fetched")
    /\ UNCHANGED << mode, runVars, irregular, now, libreVars, dexVars, maxReadings,
                    syncedTimestamps, stats, accepted, repeated >>

sync_fetched ==
    /\ pc = "sync.fetched"
    /\ readings' = resp.data
    /\ LET batch == Slice(newReadings(resp.data), maxReadings) IN
        /\ toSync' = batch
        /\ IF Len(resp.data) = 0
           THEN /\ stats' = [stats EXCEPT !.lastSync = now]
                /\ outcome' = Settled(0, 0)
                /\ Return(Settled(0, 0))
                /\ UNCHANGED call
           ELSE IF Len(batch) = 0
           THEN /\ stats' = [stats EXCEPT !.lastSync = now]
                /\ outcome' = Settled(0, Len(resp.data))
                /\ Return(Settled(0, Len(resp.data)))
                /\ UNCHANGED call
           ELSE /\ Call("uploadReadings", "sync.uploaded")
                /\ call' = NoCall
                /\ UNCHANGED << resp, stats, outcome >>
    /\ UNCHANGED << mode, runVars, irregular, now, cycles, libreVars, reqVars, dexVars, maxReadings,
                    syncedTimestamps, cycle, accepted, repeated >>

\* faulty variant: every fetched reading is marked, the cut-off ones included
sync_uploadedMarksFetched ==
    /\ pc = "sync.uploaded"
    /\ syncedTimestamps' =
            cleanupSyncedTimestamps(MarkSynced(syncedTimestamps, readings), now)
    /\ stats' = [stats EXCEPT !.totalSynced = @ + resp.uploaded,
                              !.totalSkipped = @ + (Len(readings) - Len(toSync)),
                              !.lastSync = now]
    /\ outcome' = Settled(resp.uploaded, Len(readings) - Len(toSync))
    /\ Return(Settled(resp.uploaded, Len(readings) - Len(toSync)))
    /\ UNCHANGED << mode, runVars, irregular, now, cycles, libreVars, reqVars, dexVars, maxReadings,
                    readings, toSync, ghostVars >>

\* faulty variant: the uploaded readings are marked, the total is not raised
sync_uploadedUncounted ==
    /\ pc = "sync.uploaded"
    /\ syncedTimestamps' =
            cleanupSyncedTimestamps(MarkSynced(syncedTimestamps, toSync), now)
    /\ stats' = [stats EXCEPT !.totalSkipped = @ + (Len(readings) - Len(toSync)),
                              !.lastSync = now]
    /\ outcome' = Settled(resp.uploaded, Len(readings) - Len(toSync))
    /\ Return(Settled(resp.uploaded, Len(readings) - Len(toSync)))
    /\ UNCHANGED << mode, runVars, irregular, now, cycles, libreVars, reqVars, dexVars, maxReadings,
                    readings, toSync, ghostVars >>

sync_uploaded ==
    /\ pc = "sync.uploaded"
    /\ syncedTimestamps' =
            cleanupSyncedTimestamps(MarkSynced(syncedTimestamps, toSync), now)
    /\ stats' = [stats EXCEPT !.totalSynced = @ + resp.uploaded,
                              !.totalSkipped = @ + (Len(readings) - Len(toSync)),
                              !.lastSync = now]
    /\ outcome' = Settled(resp.uploaded, Len(readings) - Len(toSync))
    /\ Return(Settled(resp.uploaded, Len(readings) - Len(toSync)))
    /\ UNCHANGED << mode, runVars, irregular, now, cycles, libreVars, reqVars, dexVars, maxReadings,
                    readings, toSync, ghostVars >>

\* faulty variant: the destination is authenticated before the source
initializeDestinationFirst ==
    /\ pc = "initialize"
    /\ Call("Dexcom.authenticate", "initialize.dexcom")
    /\ UNCHANGED << mode, runVars, irregular, now, cycles, libreVars, reqVars, resp, dexVars,
                    engineVars, stats, outcome, ghostVars >>

initialize ==
    /\ pc = "initialize"
    /\ Call("Libre.authenticate", "initialize.dexcom")
    /\ UNCHANGED << mode, runVars, irregular, now, cycles, libreVars, reqVars, resp, dexVars,
                    engineVars, stats, outcome, ghostVars >>

initialize_dexcom ==
    /\ pc = "initialize.dexcom"
    /\ Call("Dexcom.authenticate", "initialize.register")
    /\ call' = NoCall
    /\ UNCHANGED << mode, runVars, irregular, now, cycles, libreVars, reqVars, resp, dexVars,
                    engineVars, stats, outcome, cycle, accepted, repeated >>

initialize_register ==
    /\ pc = "initialize.register"
    /\ Call("registerReceiver", "initialize.done")
    /\ call' = NoCall
    /\ UNCHANGED << mode, runVars, irregular, now, cycles, libreVars, reqVars, resp, dexVars,
                    engineVars, stats, outcome, cycle, accepted, repeated >>

initialize_done ==
    /\ pc = "initialize.done"
    /\ Return(Void)
    /\ initialized' = TRUE
    /\ UNCHANGED << mode, report, irregular, now, cycles, libreVars, reqVars, dexVars, engineVars,
                    stats, outcome, ghostVars >>

testConnections ==
    /\ pc = "testConnections"
    /\ Call("Libre.testConnection", "testConnections.dexcom")
    /\ UNCHANGED << mode, runVars, irregular, now, cycles, libreVars, reqVars, resp, dexVars,
                    engineVars, stats, outcome, ghostVars >>

\* faulty variant: the destination is probed only when the source is reachable
testConnectionsStopsAtFailure ==
    /\ pc = "testConnections.dexcom"
    /\ report' = [report EXCEPT !.libreview = resp]
    /\ IF resp.success
       THEN Call("Dexcom.testConnection", "testConnections.done") /\ UNCHANGED resp
       ELSE Return([report EXCEPT !.libreview = resp])
    /\ call' = NoCall
    /\ UNCHANGED << mode, initialized, irregular, now, cycles, libreVars, reqVars,
                    dexVars, engineVars, stats, outcome, cycle, accepted, repeated >>

\* const libreResult = ...; then the destination's probe, whatever it was
testConnections_dexcom ==
    /\ pc = "testConnections.dexcom"
    /\ report' = [report EXCEPT !.libreview = resp]
    /\ Call("Dexcom.testConnection", "testConnections.done") /\ UNCHANGED resp
    /\ call' = NoCall
    /\ UNCHANGED << mode, initialized, irregular, now, cycles, libreVars, reqVars,
                    dexVars, engineVars, stats, outcome, cycle, accepted, repeated >>

\* const dexcomResult = ...; return { libreview, dexcom, allOk }
testConnections_done ==
    /\ pc = "testConnections.done"
    /\ report' = [report EXCEPT !.dexcom = resp,
                                !.allOk = report.libreview.success /\ resp.success]
    /\ Return(report')
    /\ UNCHANGED << mode, initialized, irregular, now, cycles, libreVars, reqVars,
                    dexVars, engineVars, stats, outcome, ghostVars >>

\* verify(): after initialize() has returned
verify_read ==
    /\ pc = "verify.read"
    /\ Call("readLatestValues", "verify.done")
    /\ call' = NoCall
    /\ UNCHANGED << mode, runVars, irregular, now, cycles, libreVars, reqVars, resp, dexVars,
                    engineVars, stats, outcome, cycle, accepted, repeated >>

\* verify() returns whether values were read; main(): process.exit(ok ? 0 : 1)
verify_done ==
    /\ pc = "verify.done"
    /\ Goto(IF Len(resp.data) = 0 THEN "exit(1)" ELSE "exit(0)")
    /\ UNCHANGED << mode, runVars, irregular, now, cycles, libreVars, reqVars, resp, dexVars,
                    engineVars, stats, outcome, ghostVars >>

----------------------------------------------------------------------------
(* index.js main(), runOnce, runDaemon *)

Modes == { "test", "verify", "once", "daemon" }

\* the runs whose first statement is `await this.initialize()'
RunsInitialize(m) == m \in { "verify", "once", "daemon" }

\* where verify(), runOnce() and runDaemon() go on after initialize()
Initialized(m) ==
    IF m = "verify" THEN "verify.read"
    ELSE IF m = "once" THEN "runOnce.sync" ELSE "runDaemon.sync"

\* faulty variant: the method main() calls starts without initialize()
mainWithoutInitialize ==
    /\ pc = "main"
    /\ \E m \in Modes :
        /\ mode' = m
        /\ IF RunsInitialize(m)
           THEN Goto(Initialized(m))
           ELSE Call("testConnections", "main.tested")
    /\ UNCHANGED << runVars, irregular, now, cycles, libreVars, reqVars, resp, dexVars,
                    engineVars, stats, outcome, ghostVars >>

main ==
    /\ pc = "main"
    /\ \E m \in Modes :
        /\ mode' = m
        /\ IF RunsInitialize(m)
           THEN Call("initialize", Initialized(m))
           ELSE Call("testConnections", "main.tested")
    /\ UNCHANGED << runVars, irregular, now, cycles, libreVars, reqVars, resp, dexVars,
                    engineVars, stats, outcome, ghostVars >>

\* main(): process.exit(result.allOk ? 0 : 1)
main_tested ==
    /\ pc = "main.tested"
    /\ Goto(IF resp.allOk THEN "exit(0)" ELSE "exit(1)")
    /\ UNCHANGED << mode, runVars, irregular, now, cycles, libreVars, reqVars, resp, dexVars,
                    engineVars, stats, outcome, ghostVars >>

runOnce_sync ==
    /\ pc = "runOnce.sync"
    /\ Call("sync", "runOnce.done")
    /\ UNCHANGED << mode, runVars, irregular, now, cycles, libreVars, reqVars, resp, dexVars,
                    engineVars, stats, outcome, ghostVars >>

\* main(): process.exit(0) after runOnce has resolved
runOnce_done ==
    /\ pc = "runOnce.done"
    /\ Goto("exit(0)")
    /\ UNCHANGED << mode, runVars, irregular, now, cycles, libreVars, reqVars, resp, dexVars,
                    engineVars, stats, outcome, ghostVars >>

\* runDaemon: the initial sync, outside any try block
runDaemon_sync ==
    /\ pc = "runDaemon.sync"
    /\ Call("sync", "runDaemon.schedule")
    /\ UNCHANGED << mode, runVars, irregular, now, cycles, libreVars, reqVars, resp, dexVars,
                    engineVars, stats, outcome, ghostVars >>

\* setTimeout(syncLoop, this.syncInterval), from runDaemon and from syncLoop
schedule ==
    /\ pc \in { "runDaemon.schedule", "syncLoop.schedule" }
    /\ Goto("setTimeout")
    /\ UNCHANGED << mode, runVars, irregular, now, cycles, libreVars, reqVars, resp, dexVars,
                    engineVars, stats, outcome, ghostVars >>

\* faulty variant: an interval timer, which also fires while a cycle waits
syncLoopOnInterval ==
    /\ pc \in { "setTimeout", "uploadReadings.wait" }
    /\ cycles < MaxCycles
    /\ Call("sync", "syncLoop.schedule")
    /\ UNCHANGED << mode, runVars, irregular, now, cycles, libreVars, reqVars, resp, dexVars,
                    engineVars, stats, outcome, ghostVars >>

\* the timer fires: syncLoop runs sync() inside its try block; a bounded run
\* lets it fire until n cycles have started
syncLoopUpTo(n) ==
    /\ pc = "setTimeout"
    /\ cycles < n
    /\ Call("sync", "syncLoop.schedule")
    /\ UNCHANGED << mode, runVars, irregular, now, cycles, libreVars, reqVars, resp, dexVars,
                    engineVars, stats, outcome, ghostVars >>

syncLoop == syncLoopUpTo(MaxCycles)

----------------------------------------------------------------------------
(* Time passes while the program waits for an event *)

Waiting ==
    { "_sleep", "uploadReadings.wait", "setTimeout" }

Tick ==
    /\ pc \in Waiting
    /\ now < T0 + MaxTicks * TickMs
    /\ now' = now + TickMs
    /\ UNCHANGED << pc, stack, mode, runVars, irregular, cycles, libreVars, reqVars, resp, dexVars,
                    engineVars, stats, outcome, ghostVars >>

----------------------------------------------------------------------------
(* The state after `new Syncer(config)' *)

Serials == { "LB-RANDOM" }

\* the fields the constructors set, whoever constructs the clients
NoReport == [kind |-> "report", libreview |-> Void, dexcom |-> Void, allOk |-> FALSE]

Constructed ==
    /\ mode = "null"
    /\ now = T0
    /\ cycles = 0
    /\ token = NoToken
    /\ tokenExpiry = 0
    /\ region = ""
    /\ patientId = NoPatient
    /\ req = "null"
    /\ attempt = 0
    /\ sleeps = << >>
    /\ resp = Void
    /\ accountId = 0
    /\ sessionId = 0
    /\ maxReadings = MaxBatch
    /\ syncedTimestamps = << >>
    /\ stats = [totalSynced |-> 0, totalSkipped |-> 0, errors |-> 0,
                lastSync |-> 0, lastError |-> "null"]
    /\ readings = << >>
    /\ issued = 0
    /\ cycle = [synced |-> << >>, stats |-> stats]
    /\ outcome = [kind |-> "none", synced |-> 0, skipped |-> 0, error |-> "null"]
    /\ call = NoCall
    /\ accepted = { }
    /\ repeated = { }
    /\ irregular = 0
    /\ report = NoReport
    /\ initialized = FALSE

Init ==
    /\ pc = "main"
    /\ stack = << >>
    /\ serialNumber \in Serials
    /\ toSync = << >>
    /\ Constructed

Next ==
    \/ main
    \/ initialize
    \/ initialize_dexcom
    \/ initialize_register
    \/ initialize_done
    \/ runOnce_sync
    \/ runOnce_done
    \/ runDaemon_sync
    \/ schedule
    \/ syncLoop
    \/ sync
    \/ sync_fetched
    \/ sync_uploaded
    \/ Libre_authenticate
    \/ Libre_authenticate_response
    \/ Libre_authenticate_retried
    \/ Libre_ensureAuthenticated
    \/ Libre_requestOnce
    \/ Libre_sleep
    \/ getConnections
    \/ getConnections_request
    \/ getConnections_response
    \/ getPatientId
    \/ getPatientId_connections
    \/ getGlucoseReadings
    \/ getGlucoseReadings_patient
    \/ getGlucoseReadings_request
    \/ getGlucoseReadings_response
    \/ Dexcom_authenticate
    \/ authenticateAccount
    \/ authenticateSession
    \/ Dexcom_ensureAuthenticated
    \/ reauthenticate
    \/ registerReceiver
    \/ registerReceiver_request
    \/ registerReceiver_response
    \/ uploadReadings
    \/ uploadReadings_request
    \/ uploadReadings_response
    \/ uploadReadings_wait
    \/ readLatestValues
    \/ readLatestValues_response
    \/ verify_read
    \/ verify_done
    \/ Libre_testConnection
    \/ Libre_testConnection_connections
    \/ Libre_testConnection_reading
    \/ Libre_testConnection_latest
    \/ Libre_testConnection_settled
    \/ Dexcom_testConnection
    \/ Dexcom_testConnection_read
    \/ Dexcom_testConnection_values
    \/ Dexcom_testConnection_settled
    \/ testConnections
    \/ testConnections_dexcom
    \/ testConnections_done
    \/ main_tested
    \/ Tick

Spec == Init /\ [][Next]_vars

----------------------------------------------------------------------------
(* A destination that rate-limits for as long as it likes *)

\* uploadReadings: the destination that answered the last post with HTTP 429
\* answers the same post with 429 again, as often as it likes; the call's
\* record keeps one entry for the run of identical answers
uploadReadings_throttled ==
    /\ pc = "uploadReadings.response"
    /\ call.posts # << >>
    /\ call.posts[Len(call.posts)].answer = "429"
    /\ Goto("uploadReadings.wait")
    /\ UNCHANGED << mode, runVars, irregular, now, cycles, libreVars, reqVars, resp, dexVars,
                    engineVars, stats, outcome, ghostVars >>

NextThrottled ==
    \/ Next
    \/ uploadReadings_throttled

\* the event loop keeps running: a step that can be taken is taken
ThrottledSpec == Init /\ [][NextThrottled]_vars /\ WF_vars(NextThrottled)

----------------------------------------------------------------------------
(* DexcomClient on its own: new DexcomClient(...), setSerialNumber called or *)
(* not, then one uploadReadings(batch)                                       *)

Batches ==
    { [ i \in 1..Len(g) |-> formatReading(g[i], T0) ] : g \in SeqsUpTo(RawPoints, MaxBatch) }

InitPublish ==
    /\ pc = "uploadReadings"
    /\ stack = << "published" >>
    /\ serialNumber \in Serials \cup { NoSerial }
    /\ toSync \in Batches
    /\ Constructed

NextPublish ==
    \/ uploadReadings
    \/ uploadReadings_request
    \/ uploadReadings_response
    \/ uploadReadings_wait
    \/ Dexcom_ensureAuthenticated
    \/ Dexcom_authenticate
    \/ authenticateAccount
    \/ authenticateSession
    \/ reauthenticate
    \/ Tick

PublishSpec == InitPublish /\ [][NextPublish]_vars

----------------------------------------------------------------------------
(* The two conversions on their own: a graph response of any shape is     *)
(* parsed by getGlucoseReadings, and what it returns is handed to         *)
(* uploadReadings                                                         *)

TrendValues == { Undefined, Text } \cup { Number(n) : n \in 0..MaxTrend }

\* the current measurement: any trend, in either spelling of the field
CurrentPoints ==
    [ Timestamp : { T0 - 2 },
      FactoryTimestamp : { NoTimestamp },
      ValueInMgPerDl : { 100 },
      TrendArrow : TrendValues,
      trendArrow : { Undefined, Number(2) } ]

\* the graph: timestamps present, absent, or not parseable
GraphPoints ==
    [ Timestamp : { NoTimestamp, InvalidTimestamp, T0 - TickMs, T0 - 2 },
      FactoryTimestamp : { NoTimestamp, T0 - 1 },
      ValueInMgPerDl : { 100 },
      TrendArrow : { Number(4) },
      trendArrow : { Undefined } ]

Graphs ==
    { [kind |-> "graph", current |-> c, graphData |-> g] :
            c \in CurrentPoints \cup { NoPoint },
            g \in SeqsUpTo(GraphPoints, MaxGraph) }

InitFormat ==
    /\ pc = "graph"
    /\ stack = << >>
    /\ serialNumber \in Serials
    /\ toSync = << >>
    /\ Constructed

\* the response to the graph request arrives
graphArrives ==
    /\ pc = "graph"
    /\ resp' \in Graphs
    /\ Call("getGlucoseReadings.response", "fetched")
    /\ UNCHANGED << mode, runVars, irregular, now, cycles, libreVars, reqVars, dexVars,
                    engineVars, stats, outcome, ghostVars >>

\* the readings fetched are handed to uploadReadings
publishFetched ==
    /\ pc = "fetched"
    /\ readings' = resp.data
    /\ toSync' = resp.data
    /\ Call("uploadReadings", "published")
    /\ UNCHANGED << mode, runVars, irregular, now, cycles, libreVars, reqVars, resp, dexVars,
                    maxReadings, syncedTimestamps, stats, outcome, ghostVars >>

NextFormat ==
    \/ graphArrives
    \/ getGlucoseReadings_response
    \/ publishFetched
    \/ NextPublish

FormatSpec == InitFormat /\ [][NextFormat]_vars

----------------------------------------------------------------------------
(* The source transport on its own: one _request call, and responses as   *)
(* they come off the wire - any status, any content-encoding, any body    *)

Codecs == { "gzip", "deflate", "br" }

\* buffer.toString('utf8')
Utf8(buffer) == IF buffer.codec = "none" THEN buffer.text ELSE "binary"

\* faulty variant: the bytes are looked at as they came
NotDecompressed(buffer, encoding) == Utf8(buffer)

\* _decompressBody, and the fallback of _requestOnce when it rejects
Decompressed(buffer, encoding) ==
    IF encoding \in Codecs /\ buffer.codec = encoding THEN buffer.text
    ELSE Utf8(buffer)

WireResponses(r) ==
    { [kind |-> "response", status |-> st, encoding |-> e,
       buffer |-> [codec |-> c, text |-> t], data |-> j] :
            st \in { 200, 403, 429, 500 },
            e \in Codecs \cup { "none" },
            c \in Codecs \cup { "none" },
            t \in Texts \ { "json" },
            j \in { [kind |-> "failed"] } }
    \cup { [kind |-> "response", status |-> st, encoding |-> e,
            buffer |-> [codec |-> c, text |-> "json"], data |-> j] :
            st \in { 200, 403, 429, 500 },
            e \in Codecs \cup { "none" },
            c \in Codecs \cup { "none" },
            j \in JsonBodies(r) }
    \cup { [kind |-> "response", status |-> 0, encoding |-> "none",
            buffer |-> [codec |-> "none", text |-> "ECONNRESET"],
            data |-> [kind |-> "failed"]] }

\* the response as _requestOnce looks at it, once the body is decoded
Decoded(w) ==
    [ status |-> w.status,
      body |-> Decompressed(w.buffer, w.encoding),
      data |-> IF Decompressed(w.buffer, w.encoding) = "json" THEN w.data
               ELSE [kind |-> "failed"] ]

InitTransport ==
    /\ pc = "request"
    /\ stack = << >>
    /\ serialNumber \in Serials
    /\ toSync = << >>
    /\ Constructed

\* this._request(method, path, data), for the login or the connections
send ==
    /\ pc = "request"
    /\ \E r \in { "login", "connections" } : Libre_request(r, "answered")
    /\ UNCHANGED << mode, runVars, irregular, now, cycles, libreVars, resp, dexVars,
                    engineVars, stats, outcome, ghostVars >>

\* res.on('end'): the whole response has been received
responseArrives ==
    /\ pc = "_requestOnce"
    /\ \E w \in WireResponses(req) :
        /\ LibreAnswer(Decoded(w))
        /\ resp' = w
    /\ Goto("_requestOnce.end")
    /\ UNCHANGED << mode, runVars, now, cycles, libreVars, reqVars, dexVars, engineVars,
                    stats, outcome, ghostVars >>

\* the body is decoded and looked at
responseEnds ==
    /\ pc = "_requestOnce.end"
    /\ Settle(Decoded(resp))
    /\ UNCHANGED << mode, runVars, irregular, now, cycles, libreVars, dexVars,
                    engineVars, ghostVars >>

NextTransport ==
    \/ send
    \/ responseArrives
    \/ responseEnds
    \/ Libre_sleep
    \/ Tick

TransportSpec == InitTransport /\ [][NextTransport]_vars

----------------------------------------------------------------------------
(* The daemon against a source that stands still: every graph response    *)
(* carries the same readings, those of SourceTimes, in whatever shape,    *)
(* and both services answer every request as they should                  *)

\* the timestamps a graph response carries
PointTimes(graph) ==
    { graph.graphData[i].Timestamp : i \in 1..Len(graph.graphData) }
    \cup (IF graph.current = NoPoint THEN { } ELSE { graph.current.Timestamp })

\* the cycles it takes to upload n readings in batches of m, ceil(n / m)
CyclesFor(n, m) == (n + m - 1) \div m

\* main() in daemon mode, about to call initialize(); the batch cap is any
\* value the configuration may give, the services have no other answer left
InitSteady ==
    /\ pc = "initialize"
    /\ stack = << Initialized("daemon") >>
    /\ mode = "daemon"
    /\ serialNumber \in Serials
    /\ maxReadings \in 1..MaxBatch
    /\ irregular = MaxIrregular
    /\ now = T0
    /\ cycles = 0
    /\ token = NoToken
    /\ tokenExpiry = 0
    /\ region = ""
    /\ patientId = NoPatient
    /\ req = "null"
    /\ attempt = 0
    /\ sleeps = << >>
    /\ resp = Void
    /\ accountId = 0
    /\ sessionId = 0
    /\ syncedTimestamps = << >>
    /\ stats = [totalSynced |-> 0, totalSkipped |-> 0, errors |-> 0,
                lastSync |-> 0, lastError |-> "null"]
    /\ readings = << >>
    /\ toSync = << >>
    /\ issued = 0
    /\ cycle = [synced |-> << >>, stats |-> stats]
    /\ outcome = [kind |-> "none", synced |-> 0, skipped |-> 0, error |-> "null"]
    /\ call = NoCall
    /\ accepted = { }
    /\ repeated = { }
    /\ report = NoReport
    /\ initialized = FALSE

\* _requestOnce answered by the source that stands still
steadyResponse ==
    /\ pc = "_requestOnce"
    /\ \E r \in LibreResponses(req) :
        /\ Regular(r)
        /\ req = "graph" => PointTimes(r.data) = SourceTimes
        /\ LibreAnswer(r)
        /\ Settle(r)
    /\ UNCHANGED << mode, runVars, now, cycles, libreVars, dexVars, engineVars, ghostVars >>

\* the timer fires once more than it takes to upload everything in batches
\* of one
syncLoopSteady == syncLoopUpTo(Cardinality(SourceTimes) + 1)

NextSteady ==
    \/ initialize
    \/ initialize_dexcom
    \/ initialize_register
    \/ initialize_done
    \/ runDaemon_sync
    \/ schedule
    \/ syncLoopSteady
    \/ sync
    \/ sync_fetched
    \/ sync_uploaded
    \/ Libre_authenticate
    \/ Libre_authenticate_response
    \/ Libre_ensureAuthenticated
    \/ steadyResponse
    \/ getConnections
    \/ getConnections_request
    \/ getConnections_response
    \/ getPatientId
    \/ getPatientId_connections
    \/ getGlucoseReadings
    \/ getGlucoseReadings_patient
    \/ getGlucoseReadings_request
    \/ getGlucoseReadings_response
    \/ Dexcom_authenticate
    \/ authenticateAccount
    \/ authenticateSession
    \/ Dexcom_ensureAuthenticated
    \/ registerReceiver
    \/ registerReceiver_request
    \/ registerReceiver_response
    \/ uploadReadings
    \/ uploadReadings_request
    \/ uploadReadings_response
    \/ Tick

SteadySpec == InitSteady /\ [][NextSteady]_vars

----------------------------------------------------------------------------
(* The daemon left running for one cycle more: the first sync() of        *)
(* runDaemon has no catch around it, so a cycle that fails and the cycle  *)
(* after it are the second and the third                                  *)

syncLoopAgain == syncLoopUpTo(MaxCycles + 1)

NextRecovering ==
    \/ Next
    \/ syncLoopAgain

RecoverySpec == Init /\ [][NextRecovering]_vars

----------------------------------------------------------------------------
(* The program run again: no serial number is configured, the process ends *)
(* and is started anew with the same configuration                         *)

\* values of `LB-' + Math.random().toString(36).substring(2, 8).toUpperCase()
GeneratedSerials == { "LB-4FZ1QK", "LB-9XW0RT" }

Exited == { "exit(0)", "exit(1)", "fatal" }

InitGenerated ==
    /\ pc = "main"
    /\ stack = << >>
    /\ serialNumber \in GeneratedSerials
    /\ toSync = << >>
    /\ Constructed

\* node index.js, once more: validateConfig(), new Syncer(config)
restart ==
    /\ pc \in Exited
    /\ pc' = "main"
    /\ stack' = << >>
    /\ serialNumber' \in GeneratedSerials
    /\ toSync' = << >>
    /\ mode' = "null"
    /\ now' = T0
    /\ cycles' = 0
    /\ token' = NoToken
    /\ tokenExpiry' = 0
    /\ region' = ""
    /\ patientId' = NoPatient
    /\ req' = "null"
    /\ attempt' = 0
    /\ sleeps' = << >>
    /\ resp' = Void
    /\ accountId' = 0
    /\ sessionId' = 0
    /\ maxReadings' = MaxBatch
    /\ syncedTimestamps' = << >>
    /\ stats' = [totalSynced |-> 0, totalSkipped |-> 0, errors |-> 0,
                 lastSync |-> 0, lastError |-> "null"]
    /\ readings' = << >>
    /\ issued' = 0
    /\ cycle' = [synced |-> << >>, stats |-> stats']
    /\ outcome' = [kind |-> "none", synced |-> 0, skipped |-> 0, error |-> "null"]
    /\ call' = NoCall
    /\ accepted' = { }
    /\ repeated' = { }
    /\ irregular' = 0
    /\ report' = NoReport
    /\ initialized' = FALSE

NextRestarted ==
    \/ Next
    \/ restart

RestartSpec == InitGenerated /\ [][NextRestarted]_vars

----------------------------------------------------------------------------
(* The interrupt signal *)

\* where the program waits for the event loop to deliver something: a
\* response, the end of a sleep, the timer
Awaiting ==
    Waiting \cup { "_requestOnce", "_authenticateAccount", "_authenticateSession",
                   "registerReceiver.response", "uploadReadings.response" }

\* runDaemon has reached process.on('SIGINT', ...): the first cycle has
\* returned and the first timer is set
HandlerRegistered ==
    /\ mode = "daemon"
    /\ \/ pc = "setTimeout"
       \/ stack # << >> /\ stack[Len(stack)] = "syncLoop.schedule"

\* the handler: it logs the totals and calls process.exit(0)
SIGINT ==
    /\ HandlerRegistered
    /\ pc \in Awaiting
    /\ pc' = "exit(0)"
    /\ stack' = << >>
    /\ UNCHANGED << mode, runVars, irregular, now, cycles, libreVars, reqVars, resp, dexVars,
                    engineVars, stats, outcome, ghostVars >>

NextSignalled ==
    \/ Next
    \/ SIGINT

SignalSpec == Init /\ [][NextSignalled]_vars

----------------------------------------------------------------------------
(* Properties *)

DayMs == 24 * 60 * 60 * 1000

SyncedSet == SetOf(syncedTimestamps)

\* where control is after sync() has thrown: main()'s catch, or syncLoop's
\* catch, its timer and the start of the next cycle
AfterThrow == { "fatal", "syncLoop.schedule", "setTimeout", "sync" }

\* states in which the sync() call that ran last has just settled
JustSettled == pc \in { "runOnce.done", "runDaemon.schedule", "syncLoop.schedule", "fatal" }

\* the uploadReadings call of the running cycle is in flight or has just returned
InUpload == pc = "sync.uploaded" \/ "sync.uploaded" \in SetOf(stack)

BatchTimes == { toSync[i].timestamp : i \in 1..Len(toSync) }
FetchedTimes == { readings[i].timestamp : i \in 1..Len(readings) }

\* n, k and min(k, m) of the cycle, from what the dedup set was at its start
FetchedCount == Len(readings)
NewCount == Cardinality(FetchedTimes \ SetOf(cycle.synced))
BatchSize == Min(NewCount, maxReadings)

Answers == [ i \in 1..Len(call.posts) |-> call.posts[i].answer ]

\* C1: no reading whose timestamp is in the dedup set when a cycle starts is
\* in the batch the cycle hands to uploadReadings, nor in a request it posts,
\* even when the fetch returns that reading again.
C1_SyncedNeverInBatch ==
    /\ BatchTimes \cap SetOf(cycle.synced) = { }
    /\ InUpload =>
        \A i \in 1..Len(call.posts) :
            Times(call.posts[i].egvs) \cap SetOf(cycle.synced) = { }

C1_Witness ==
    /\ pc = "uploadReadings.response"
    /\ FetchedTimes \cap SetOf(cycle.synced) # { }
    /\ BatchTimes # { }

\* C2: a reading the source keeps returning is accepted by the destination
\* in at most one successful upload, whatever its age.
C2_UploadedAtMostOnce == repeated = { }

\* C3 as stated: a cycle that returns has uploaded min(k, m) readings, reports
\* synced = min(k, m) and skipped = n - min(k, m), and the dedup set has grown
\* by min(k, m) when the uploaded timestamps are within the last 24 hours.
C3_GrowsByBatch ==
    (JustSettled /\ outcome.kind = "returned") =>
        /\ Len(toSync) = BatchSize
        /\ outcome.synced = BatchSize
        /\ outcome.skipped = FetchedCount - BatchSize
        /\ (\A ts \in BatchTimes : ts >= now - DayMs) =>
                Len(syncedTimestamps) = Len(cycle.synced) + BatchSize

\* C3 amended: ... and the dedup set has grown by min(k, m) when neither an
\* uploaded timestamp nor an entry the set already held is older than 24
\* hours; a posted batch holds min(k, m) records.
C3_BatchAndCounts ==
    (JustSettled /\ outcome.kind = "returned") =>
        /\ Len(toSync) = BatchSize
        /\ outcome.synced = BatchSize
        /\ outcome.skipped = FetchedCount - BatchSize
        /\ BatchSize > 0 =>
                /\ Len(call.posts) > 0
                /\ Len(call.posts[Len(call.posts)].egvs) = BatchSize
                /\ call.posts[Len(call.posts)].answer = "200"
        /\ (\A ts \in BatchTimes \cup SetOf(cycle.synced) : ts >= now - DayMs) =>
                Len(syncedTimestamps) = Len(cycle.synced) + BatchSize

C3_Witness ==
    /\ JustSettled
    /\ outcome.kind = "returned"
    /\ NewCount > maxReadings
    /\ outcome.synced = maxReadings
    /\ outcome.skipped = FetchedCount - maxReadings
    /\ Len(syncedTimestamps) = Len(cycle.synced) + maxReadings

\* C4: when more new readings exist than the batch holds, the batch is the
\* maxReadings most recent of them: each reading of the batch is strictly
\* newer than each new reading left out.
C4_BatchIsMostRecent ==
    Len(toSync) > 0 =>
        /\ Len(toSync) = BatchSize
        /\ \A b \in BatchTimes :
            \A t \in (FetchedTimes \ SetOf(cycle.synced)) \ BatchTimes : b > t

C4_Witness ==
    /\ pc = "uploadReadings.response"
    /\ NewCount > maxReadings
    /\ (FetchedTimes \ SetOf(cycle.synced)) \ BatchTimes # { }

\* C5: a cycle that throws, in the fetch or in the upload, leaves the dedup set
\* as it was when the cycle started, adds one to the error counter, stores the
\* error's message in lastError, and the error reaches the caller of sync().
C5_FailedCycle ==
    outcome.kind = "threw" =>
        /\ syncedTimestamps = cycle.synced
        /\ stats.errors = cycle.stats.errors + 1
        /\ stats.lastError = outcome.error
        /\ stats.totalSynced = cycle.stats.totalSynced
        /\ resp = Error(outcome.error)
        /\ pc \in AfterThrow

C5_Witness ==
    /\ outcome.kind = "threw"
    /\ outcome.error = "Failed to upload readings"
    /\ Len(cycle.synced) > 0

\* C6 as stated: after every cycle that returns, the cycles that return early
\* included, the dedup set holds no entry older than 24 hours.
C6_NoOldEntryAfterAnyCycle ==
    (JustSettled /\ outcome.kind = "returned") =>
        \A ts \in SyncedSet : ts >= now - DayMs

\* C6 amended: after every cycle that returns from an upload the dedup set
\* holds no entry older than 24 hours; a cycle that returns early leaves the
\* dedup set as it was.
C6_NoOldEntryAfterUpload ==
    (JustSettled /\ outcome.kind = "returned") =>
        IF Len(toSync) > 0
        THEN \A ts \in SyncedSet : ts >= now - DayMs
        ELSE syncedTimestamps = cycle.synced

C6_Witness ==
    /\ JustSettled
    /\ outcome.kind = "returned"
    /\ Len(toSync) > 0
    /\ \E ts \in SetOf(cycle.synced) : ts < now - DayMs

\* C7: the purge that runs at time now removes every entry older than
\* now - 24 h and keeps every other entry, the one exactly 24 h old included,
\* in whatever order the entries were inserted.
C7_PurgeExact ==
    [][ pc = "sync.uploaded" =>
            /\ SetOf(syncedTimestamps') =
                { ts \in SyncedSet \cup BatchTimes : ts >= now - DayMs }
            /\ Len(syncedTimestamps') = Cardinality(SetOf(syncedTimestamps')) ]_vars

C7_Witness ==
    /\ JustSettled
    /\ outcome.kind = "returned"
    /\ Len(toSync) > 0
    /\ now - DayMs \in SyncedSet
    /\ \E ts \in SetOf(cycle.synced) : ts < now - DayMs

\* C8: an upload answered 500 SessionIdNotFound whose reauthentication and
\* second post succeed reauthenticates once (account step, then session step),
\* posts the same batch again under the new session id and returns
\* uploaded = batch size; sync() sees no error.
C8_SessionRecovered ==
    (pc = "sync.uploaded" /\ Answers = << "500 SessionIdNotFound", "200" >>) =>
        /\ call.reauths = 1
        /\ \E i \in 1..Len(call.auth) :
            /\ call.auth[i] = "reauthenticate"
            /\ SubSeq(call.auth, i + 1, Len(call.auth)) = << "account", "session" >>
        /\ call.posts[2].egvs = call.posts[1].egvs
        /\ Len(call.posts[2].egvs) = Len(toSync)
        /\ call.posts[2].sessionId = sessionId
        /\ call.posts[2].sessionId # call.posts[1].sessionId
        /\ resp = [kind |-> "result", uploaded |-> Len(toSync)]
        /\ stats.errors = cycle.stats.errors
        /\ outcome.kind = "pending"

C8_Witness ==
    /\ pc = "sync.uploaded"
    /\ Answers = << "500 SessionIdNotFound", "200" >>

\* C9: one uploadReadings call reauthenticates at most once, whatever the
\* destination answers.
C9_SingleRetry == InUpload => call.reauths <= 1

\* the error last thrown was msg: it is travelling up to the catch block that
\* takes it, or is what a testConnection() has reported
Thrown(msg) ==
    \/ /\ resp = Error(msg)
       /\ pc \in AfterThrow \cup { "Libre.testConnection.settled",
                                  "Dexcom.testConnection.settled" }
    \/ /\ mode = "test"
       /\ \/ resp = Probe(FALSE, msg)
          \/ report.libreview = Probe(FALSE, msg)
          \/ report.dexcom = Probe(FALSE, msg)

\* C10: a request blocked on three attempts in a row is attempted three times
\* and no more, and then ends in the terminal error: no result is returned.
C10_ThreeAttempts ==
    /\ attempt <= maxRetries
    /\ pc = "_requestOnce" => attempt = Len(sleeps) + 1
    /\ Len(sleeps) >= maxRetries =>
        /\ Len(sleeps) = maxRetries
        /\ \/ pc = "_sleep"
           \/ Thrown("LibreView API blocked")

C10_Witness ==
    /\ Len(sleeps) = maxRetries
    /\ resp = Error("LibreView API blocked")

\* the authenticate(true) calls of the running authenticate that have not
\* returned: the regional redirects it has followed
RedirectsFollowed ==
    Cardinality({ i \in 1..Len(stack) : stack[i] = "Libre.authenticate.retried" })

\* C11: authenticate follows at most one regional redirect; a second redirect
\* in a row makes it fail, no further login request is sent.
C11_SingleRedirect == RedirectsFollowed <= 1

\* C12: every sync() cycle that starts settles - it returns or throws -
\* whatever the two services answer, a destination that answers 429 to every
\* upload included.
C12_CycleSettles == (outcome.kind = "pending") ~> (outcome.kind # "pending")

\* C13: in daemon mode the failure of a sync cycle, the immediate first one
\* included, does not end the process.
C13_FailedCycleKeepsRunning ==
    (mode = "daemon" /\ outcome.kind = "threw") => pc # "fatal"

\* the sync() calls that have started and not settled
CyclesInFlight ==
    Cardinality({ i \in 1..Len(stack) : stack[i] \in SyncFrames })
        + (IF pc \in SyncFrames THEN 1 ELSE 0)

\* C14: at most one sync cycle is in flight; while the timer of the next cycle
\* is armed, and when a cycle starts, the cycle before it has settled.
C14_OneCycleAtATime ==
    /\ CyclesInFlight <= 1
    /\ pc \in { "setTimeout", "sync" } =>
            /\ CyclesInFlight = 0
            /\ outcome.kind # "pending"

\* the timer is armed after a cycle that waited out a rate limit
C14_Witness ==
    /\ pc = "setTimeout"
    /\ cycles >= 2
    /\ outcome.kind = "returned"
    /\ \E i \in 1..Len(call.posts) : call.posts[i].answer = "429"

\* C15: in daemon mode the process ends on an interrupt only between cycles:
\* no cycle is in flight when it exits.
C15_ExitBetweenCycles ==
    (mode = "daemon" /\ pc = "exit(0)") => outcome.kind # "pending"

\* C16: a connections or graph request is sent, and sent again after a
\* backoff sleep, only while a token is held and now < expiry.
C16_TokenValidWhenSent ==
    (pc = "_requestOnce" /\ req \in { "connections", "graph" }) =>
        /\ token # NoToken
        /\ now < tokenExpiry

\* C17: ensureAuthenticated goes on to a login request exactly when no token
\* is held or now is at or past the expiry; otherwise it returns at once and
\* leaves token, expiry, region and patient id as they were, no request sent.
C17_EnsureAuthenticated ==
    [][ pc = "Libre.ensureAuthenticated" =>
            IF token # NoToken /\ now < tokenExpiry
            THEN /\ pc' = Head(stack)
                 /\ pc' # "_requestOnce"
                 /\ UNCHANGED << token, tokenExpiry, region, patientId, req, attempt >>
            ELSE pc' = "Libre.authenticate" ]_vars

\* a login request sent because the held token has just reached its expiry
C17_Witness ==
    /\ pc = "_requestOnce"
    /\ req = "login"
    /\ token # NoToken
    /\ now = tokenExpiry

\* C18: the destination's authenticate sends the account exchange and then
\* the session exchange; the session exchange is sent only after an account
\* exchange answered 200 with a body; a step answered otherwise is the last
\* request of the flow, authenticate throws and no session id is stored.
C18_TwoStepAuthentication ==
    \A i \in 1..Len(call.auth) :
        /\ call.auth[i] = "account" =>
                i = 1 \/ call.auth[i - 1] = "reauthenticate"
        /\ call.auth[i] = "session" =>
                /\ i > 1
                /\ call.auth[i - 1] = "account"
                /\ call.answers[i - 1] = "200"
        /\ (call.auth[i] \in { "account", "session" } /\ call.answers[i] # "200") =>
                /\ i = Len(call.auth)
                /\ sessionId = 0
                /\ Thrown(IF call.auth[i] = "account"
                          THEN "Account authentication failed"
                          ELSE "Session authentication failed")

\* the account exchange was answered 200 with an empty body
C18_Witness ==
    /\ call.auth # << >>
    /\ call.auth[Len(call.auth)] = "account"
    /\ call.answers[Len(call.auth)] = "200 empty"
    /\ resp = Error("Account authentication failed")

\* the destination's authentication flow is running
Authenticating ==
    pc \in { "Dexcom.authenticate", "_authenticateAccount", "_authenticateSession" }

\* C19: in a call to which the destination has not answered SessionIdNotFound
\* the authentication flow runs only while no session id is held: with a
\* session id held, ensureAuthenticated sends no authentication request.
C19_AuthenticatesOnlyWithoutSession ==
    (Authenticating /\ \A i \in 1..Len(call.posts) :
                            ~SessionIdNotFound(call.posts[i].answer)) =>
        sessionId = 0

\* a later upload is posted under the session id the earlier calls used
C19_Witness ==
    /\ pc = "uploadReadings.response"
    /\ cycles >= 2
    /\ accepted # { }
    /\ sessionId # 0
    /\ call.auth = << >>

\* the requests of the running call that were answered 500 SessionIdNotFound
Reported == { i \in 1..Len(call.posts) : call.posts[i].answer = "500 SessionIdNotFound" }

\* C20: reauthenticate starts only on a response 500 SessionIdNotFound, once
\* for each such response, and the authentication it runs starts with the
\* account id and the session id both cleared.
C20_ReauthenticateOnlyOnLostSession ==
    /\ pc = "reauthenticate" =>
            /\ call.posts # << >>
            /\ call.posts[Len(call.posts)].answer = "500 SessionIdNotFound"
    /\ call.reauths =
            Cardinality(Reported) - (IF pc = "reauthenticate" THEN 1 ELSE 0)
    /\ (/\ pc \in { "Dexcom.authenticate", "_authenticateAccount" }
        /\ call.auth # << >>
        /\ call.auth[Len(call.auth)] = "reauthenticate") =>
            /\ sessionId = 0
            /\ accountId = 0

\* the account exchange of a reauthentication is about to be answered
C20_Witness ==
    /\ pc = "_authenticateAccount"
    /\ call.auth # << >>
    /\ call.auth[Len(call.auth)] = "reauthenticate"
    /\ issued > 0
    /\ sessionId = 0
    /\ accountId = 0

\* C21: while the destination client has no serial number no upload request
\* is sent; uploadReadings, once authenticated, fails with the configuration
\* error.
C21_NoUploadWithoutSerial ==
    serialNumber = NoSerial =>
        /\ pc # "uploadReadings.response"
        /\ call.posts = << >>
        /\ accepted = { }
        /\ pc # "published"
        /\ (pc = "fatal" /\ sessionId # 0) => resp = Error("Serial number not set")

\* uploadReadings has failed on the missing serial number
C21_Witness ==
    /\ serialNumber = NoSerial
    /\ toSync # << >>
    /\ sessionId # 0
    /\ pc = "fatal"
    /\ resp = Error("Serial number not set")

\* the posts of the running uploadReadings call that the destination
\* rejected with something other than 429 or SessionIdNotFound
Rejected ==
    { i \in 1..Len(call.posts) :
        call.posts[i].egvs # << >> /\ call.posts[i].answer = "500" }

\* C22: an upload answered with anything but 200, 429 or 500
\* SessionIdNotFound ends the upload with an upload error: the post is the
\* last request of the cycle (no retry, no re-authentication after it), the
\* cycle fails, and the batch's timestamps are not in the dedup set.
C22_UploadErrorIsTerminal ==
    \A i \in Rejected :
        /\ i = Len(call.posts)
        /\ pc \in AfterThrow
        /\ ~Authenticating
        /\ outcome.kind = "threw"
        /\ outcome.error = "Failed to upload readings"
        /\ resp = Error("Failed to upload readings")
        /\ syncedTimestamps = cycle.synced
        /\ Times(call.posts[i].egvs) \cap SyncedSet = { }

\* a second cycle whose upload was rejected after a 429 had been waited out
C22_Witness ==
    /\ Rejected # { }
    /\ Len(call.posts) > 1
    /\ call.posts[1].answer = "429"
    /\ Len(cycle.synced) > 0
    /\ pc = "setTimeout"

\* control is inside a DexcomClient method
DexcomPcs ==
    { "Dexcom.authenticate", "Dexcom.ensureAuthenticated", "_authenticateAccount",
      "_authenticateSession", "reauthenticate", "registerReceiver",
      "registerReceiver.request", "registerReceiver.response", "uploadReadings",
      "uploadReadings.request", "uploadReadings.response", "uploadReadings.wait" }

\* the runs that start with initialize()
Initializing == RunsInitialize(mode)

\* C23: initialize authenticates the source first and the destination
\* second: as long as the source has not issued a token no DexcomClient
\* method runs and no request has gone to the destination, and when the
\* source authentication fails initialize throws with the destination
\* never contacted.
C23_SourceBeforeDestination ==
    (Initializing /\ token = NoToken) =>
        /\ pc \notin DexcomPcs
        /\ SetOf(stack) \cap DexcomPcs = { }
        /\ call = NoCall
        /\ issued = 0
        /\ accountId = 0
        /\ sessionId = 0
        /\ cycles = 0

\* the source authentication failed and main() caught the error
C23_Witness ==
    /\ Initializing
    /\ token = NoToken
    /\ pc = "fatal"
    /\ resp.kind = "error"
    /\ call = NoCall

\* a sync cycle has started
CycleStarted == cycles > 0

\* the read-back of verify() has started
ReadBackStarted ==
    \/ pc \in { "verify.done", "readLatestValues", "readLatestValues.response" }
    \/ "verify.done" \in SetOf(stack)

\* C24: in a --once, daemon or --verify run no sync cycle and no read-back
\* of the destination starts before initialize() has returned; a --once run
\* starts one cycle only, ends with that cycle's result when the cycle
\* succeeds, and with the cycle's error in main()'s catch when it fails.
C24_InitializedFirst ==
    /\ (Initializing /\ (CycleStarted \/ ReadBackStarted)) =>
            /\ initialized
            /\ token # NoToken
            /\ issued > 0
    /\ mode = "once" =>
            /\ cycles <= 1
            /\ pc = "exit(0)" =>
                    /\ cycles = 1
                    /\ outcome.kind = "returned"
                    /\ resp = outcome
            /\ outcome.kind = "threw" => pc = "fatal" /\ resp = Error(outcome.error)
            /\ (pc = "fatal" /\ cycles = 1) => outcome.kind = "threw"
    /\ mode = "verify" => cycles = 0

\* the single cycle of a --once run has failed
C24_Witness ==
    /\ mode = "once"
    /\ initialized
    /\ cycles = 1
    /\ outcome.kind = "threw"
    /\ pc = "fatal"

\* C25: with no serial number configured, the serial number of the process
\* started after a restart is the one the process before it had.
C25_SameSerialAfterRestart ==
    [][restart => serialNumber' = serialNumber]_vars

\* C26: testConnections() never throws: a failure on either side is
\* captured as { success: false, error }, the destination is probed whatever
\* the source's probe gave, allOk is true exactly when both probes
\* succeeded, and the dedup set and the run statistics are left untouched.
C26_ProbesNeverThrow ==
    mode = "test" =>
        /\ pc # "fatal"
        /\ syncedTimestamps = << >>
        /\ stats = [totalSynced |-> 0, totalSkipped |-> 0, errors |-> 0,
                    lastSync |-> 0, lastError |-> "null"]
        /\ cycles = 0
        /\ pc \in { "main.tested", "exit(0)", "exit(1)" } =>
                /\ report.libreview.kind = "probe"
                /\ report.dexcom.kind = "probe"
                /\ call.auth # << >>
                /\ report.libreview.success <=> report.libreview.error = "null"
                /\ report.dexcom.success <=> report.dexcom.error = "null"
                /\ report.allOk <=> (report.libreview.success /\ report.dexcom.success)
                /\ resp = report
        /\ pc = "exit(0)" => report.allOk
        /\ pc = "exit(1)" => ~report.allOk

\* the source's probe failed, the destination was probed and answered
C26_Witness ==
    /\ mode = "test"
    /\ pc = "exit(1)"
    /\ ~report.libreview.success
    /\ report.libreview.error # "null"
    /\ report.dexcom.success

\* the readings getGlucoseReadings has returned
Fetched == IF resp.kind = "readings" THEN resp.data ELSE << >>

\* C27: the list getGlucoseReadings returns is strictly descending by
\* timestamp, so no two of its readings have the same timestamp, whatever
\* the current measurement and the graph points were.
C27_StrictlyDescending ==
    \A i \in 1..Len(Fetched) : \A j \in 1..Len(Fetched) :
        i < j => Fetched[i].timestamp > Fetched[j].timestamp

\* three readings returned: the current measurement and two graph points
C27_Witness ==
    /\ pc = "fetched"
    /\ Len(Fetched) = 3
    /\ Fetched[1].timestamp = now

\* the wire records of the PostReceiverEgvRecords requests of the call, each
\* with the canonical reading it was made from
Converted ==
    { << toSync[i], call.posts[k].egvs[i] >> :
        k \in { k \in 1..Len(call.posts) : Len(call.posts[k].egvs) = Len(toSync) },
        i \in 1..Len(toSync) }

\* C28: a source trend v in 1..7 is sent as 8 - v, and mapping the result
\* again gives v back; a trend outside 1..7, or one that is not a number,
\* is sent as 4.
C28_TrendMirrored ==
    \A c \in Converted :
        IF c[1].trend.typeof = "number" /\ c[1].trend.value \in 1..7
        THEN /\ c[2].Trend = 8 - c[1].trend.value
             /\ DexcomTrend(Number(c[2].Trend)) = c[1].trend.value
        ELSE c[2].Trend = 4

\* a rising trend (1) was sent as 7, in a call started with fetched readings
C28_Witness ==
    /\ pc = "published"
    /\ \E c \in Converted : c[1].trend = Number(1) /\ c[2].Trend = 7

\* C29: every reading getGlucoseReadings returns has a trend in 1..7.
C29_TrendInRange ==
    \A i \in 1..Len(Fetched) :
        /\ Fetched[i].trend.typeof = "number"
        /\ Fetched[i].trend.value \in 1..7

\* the instant _formatReading must give a raw point
Instant(point, t) ==
    IF point.Timestamp \notin { NoTimestamp, InvalidTimestamp } THEN point.Timestamp
    ELSE IF point.Timestamp = NoTimestamp
            /\ point.FactoryTimestamp \notin { NoTimestamp, InvalidTimestamp }
    THEN point.FactoryTimestamp
    ELSE t

\* the points of a graph response
PointsOf(data) ==
    SetOf(data.graphData) \cup (IF data.current # NoPoint THEN { data.current } ELSE { })

ResolvingPatient == "getPatientId.connections" \in SetOf(stack)

\* C31: getPatientId caches the first linked patient's id: once an id is
\* held, getPatientId returns it and sends no connections request; with an
\* empty connections list it throws the no-connections error and the cached
\* id stays unset.
C31_PatientIdCached ==
    /\ patientId # NoPatient =>
            /\ patientId = "patient-1"
            /\ ~ResolvingPatient
            /\ pc # "getPatientId.connections"
    /\ pc = "getGlucoseReadings.request" => resp.data = patientId
    /\ resp = Error("No LibreLinkUp connections found") => patientId = NoPatient

\* a second cycle has got the id from the cache
C31_Witness ==
    /\ cycles = 2
    /\ pc = "getGlucoseReadings.request"
    /\ resp.data = "patient-1"

NonBlockedFailure ==
    /\ pc = "_requestOnce.end"
    /\ \/ resp.status = 0
       \/ /\ ~Parses(Decoded(resp).body)
          /\ ~Blocked(Decoded(resp))

\* C33: a failure of an attempt that is not a block ends the request there:
\* the error is thrown out of _request in the same step, with no sleep
\* added and no further attempt, on whichever attempt it happens.
C33_FailureAbortsAtOnce ==
    [][ NonBlockedFailure =>
            /\ resp' \in { Error("Failed to parse response"), Error("ECONNRESET") }
            /\ pc' = "fatal"
            /\ stack' = << >>
            /\ sleeps' = sleeps
            /\ Len(sleeps) = attempt - 1
            /\ attempt' = attempt ]_vars

\* the second attempt failed on a body that is not JSON, after one sleep
C33_Witness ==
    /\ pc = "fatal"
    /\ attempt = 2
    /\ sleeps = << retryDelayMs >>
    /\ resp = Error("Failed to parse response")

\* the text is one that marks a response as blocked: a challenge error code,
\* nothing but whitespace, an empty object, or an HTML page
BlockedText(text) ==
    text \in { "error code: 1015", "error code: 1020", "", "  ", "{}", " {} ",
               "<html>", "<!DOCTYPE html>" }

\* the body was compressed with the codec the content-encoding header names
WellEncoded(w) == w.buffer.codec = w.encoding

C35_SkippedTotalled ==
    outcome.kind = "returned" =>
        stats.totalSkipped = cycle.stats.totalSkipped + outcome.skipped

\* C36: stats.errors counts the cycles that threw: a cycle that throws
\* raises it by one and leaves totalSynced as it was, a cycle that returns
\* or is still running leaves it as it was.
C36_ErrorsCounted ==
    /\ stats.errors <= cycles
    /\ outcome.kind = "threw" =>
            /\ stats.errors = cycle.stats.errors + 1
            /\ stats.totalSynced = cycle.stats.totalSynced
    /\ outcome.kind \in { "pending", "returned" } =>
            stats.errors = cycle.stats.errors

\* after a cycle that uploaded, a second cycle has thrown
C36_Witness ==
    /\ cycles = 2
    /\ outcome.kind = "threw"
    /\ stats.errors = 1
    /\ stats.totalSynced > 0
    /\ cycle.stats.totalSynced = stats.totalSynced

\* C37: the dedup set never holds more timestamps than stats.totalSynced
\* counts: a timestamp enters it only when sync() goes on after an upload
\* that was answered 200, it is one of the batch, and totalSynced rises by
\* the size of the batch in the same step.
C37_DedupWithinTotal ==
    [][ /\ Len(syncedTimestamps') <= stats'.totalSynced
        /\ ~(SetOf(syncedTimestamps') \subseteq SyncedSet) =>
                /\ pc = "sync.uploaded"
                /\ Answers # << >>
                /\ Answers[Len(Answers)] = "200"
                /\ SetOf(syncedTimestamps') \ SyncedSet \subseteq BatchTimes
                /\ stats'.totalSynced = stats.totalSynced + Len(toSync) ]_vars

\* the set holds as many timestamps as were ever uploaded
C37_Witness ==
    /\ Len(syncedTimestamps) = 2
    /\ stats.totalSynced = 2
    /\ cycles = 2

\* the source's readings are all younger than 24 h
SourceWithinDay == \A t \in SourceTimes : t >= now - DayMs

\* C38: readings cut off by the batch cap are not marked synced and stay
\* eligible.  While the source returns the same n readings, all within
\* 24 h, and every upload succeeds: a cycle marks what it uploaded and
\* nothing else, k cycles have uploaded min(n, k * maxReadings) readings,
\* none of them twice, so that after ceil(n / maxReadings) cycles every
\* reading is uploaded exactly once, and a cycle after those posts nothing.
C38_CutOffStayEligible ==
    SourceWithinDay /\ outcome.kind = "returned" =>
        /\ FetchedTimes = SourceTimes
        /\ SyncedSet = SetOf(cycle.synced) \cup BatchTimes
        /\ accepted = SyncedSet
        /\ repeated = { }
        /\ Cardinality(accepted) =
                Min(Cardinality(SourceTimes), cycles * maxReadings)
        /\ cycles >= CyclesFor(Cardinality(SourceTimes), maxReadings) =>
                accepted = SourceTimes
        /\ cycles > CyclesFor(Cardinality(SourceTimes), maxReadings) =>
                /\ outcome.synced = 0
                /\ toSync = << >>
                /\ call.posts = << >>
                /\ SyncedSet = SetOf(cycle.synced)

\* three readings in batches of two: the third cycle found nothing to upload
C38_Witness ==
    /\ SourceWithinDay
    /\ Cardinality(SourceTimes) > maxReadings
    /\ maxReadings > 1
    /\ cycles = CyclesFor(Cardinality(SourceTimes), maxReadings) + 1
    /\ outcome.kind = "returned"
    /\ outcome.synced = 0
    /\ outcome.skipped = Cardinality(SourceTimes)
    /\ accepted = SourceTimes
    /\ repeated = { }

\* uploadReadings waits for the reauthenticate() it called, which is at one
\* of authenticate()'s two steps
ReauthenticatingForUpload ==
    /\ call.reauths > 0
    /\ "uploadReadings" \in SetOf(stack)
    /\ pc \in { "_authenticateAccount", "_authenticateSession" }

AuthenticationErrors ==
    { Error("Account authentication failed"), Error("Session authentication failed") }

\* the session ids the destination answered SessionIdNotFound to in this call
StaleSessions ==
    { call.posts[i].sessionId :
        i \in { j \in 1..Len(call.posts) : SessionIdNotFound(call.posts[j].answer) } }

\* C40: a reauthentication started by uploadReadings that fails at either
\* step leaves the client without a session id; a call that finds no
\* session id runs authenticate() from its first step; and every post
\* carries the session id issued last, never one the destination has
\* refused.
C40_NoStaleSession ==
    [][ /\ ReauthenticatingForUpload /\ resp' \in AuthenticationErrors =>
                /\ sessionId' = 0
                /\ pc' \notin DexcomPcs
        /\ pc = "Dexcom.ensureAuthenticated" /\ sessionId = 0 =>
                pc' = "Dexcom.authenticate"
        /\ pc = "Dexcom.authenticate" => pc' = "_authenticateAccount"
        /\ Len(call'.posts) > Len(call.posts) =>
                /\ sessionId # 0
                /\ sessionId = issued
                /\ sessionId \notin StaleSessions
                /\ call'.posts[Len(call'.posts)].sessionId = sessionId
                /\ call.auth # << >> =>
                        /\ Len(call.auth) >= 2
                        /\ SubSeq(call.auth, Len(call.auth) - 1, Len(call.auth))
                                = << "account", "session" >> ]_vars

\* a cycle's reauthentication failed; the cycle after it found no session
\* id, authenticated in full and uploaded
C40_Witness ==
    /\ cycles = MaxCycles + 1
    /\ stats.errors = 1
    /\ stats.lastError \in { "Account authentication failed", "Session authentication failed" }
    /\ outcome.kind = "returned"
    /\ outcome.synced > 0
    /\ call.reauths = 0
    /\ call.auth = << "account", "session" >>
    /\ sessionId # 0

============================================================================
